---- MODULE Spec2Model ----
(***************************************************************************)
(* BerryBot: order fulfilment over a stock ledger, a bonus (loyalty)       *)
(* balance, the order status machine, the Telegram payment confirmation    *)
(* and the Yandex delivery claim.                                          *)
(*                                                                         *)
(* Every SQL statement issued through AsyncDatabase runs in its own        *)
(* transaction (src/database/async_db.py:62-92), and create_order and      *)
(* cancel_order run one transaction under row locks, so each of them is    *)
(* one atomic step; a handler is a sequence of such steps separated by its *)
(* awaits, and handlers of different updates interleave at those awaits.   *)
(***************************************************************************)
EXTENDS Integers, Sequences, FiniteSets, TLC

\* ------------------------------------------------------------------ bounds
NumPositions == 2
NumBuyers == 1
MaxOrders == 1
MaxQty == 1
MaxBonus == 2
MaxHandlers == 2
MaxClaims == 2

Positions == 1..NumPositions
Buyers == 1..NumBuyers
Handlers == 1..MaxHandlers

\* ------------------------------------------------------- program constants
MIN_PAYMENT_AMOUNT == 60

\* Money is counted in steps of half the minimal payable amount, so that a
\* cart can fall below, on and above MIN_PAYMENT_AMOUNT.
Unit == MIN_PAYMENT_AMOUNT \div 2

S_WAITING == "waiting"
S_PENDING_PAYMENT == "pending_payment"
S_PROCESSING == "processing"
S_READY == "ready"
S_TRANSFERRING == "transferring"
S_FINISHED == "finished"
S_CANCELLED == "cancelled"

OrderStatus ==
    {S_WAITING, S_PENDING_PAYMENT, S_PROCESSING, S_TRANSFERRING, S_READY,
     S_FINISHED, S_CANCELLED}

ACTIVE_STATUSES == {S_PENDING_PAYMENT, S_PROCESSING, S_READY, S_TRANSFERRING}

FINISHED_STATUSES == {S_FINISHED, S_CANCELLED}

DeliveryWay == {"pickup", "delivery"}

\* ALLOWED_FROM.get(to_status, set())
ALLOWED_FROM(to_status) ==
    CASE to_status = S_READY -> {S_PROCESSING}
      [] to_status = S_TRANSFERRING -> {S_PROCESSING}
      [] to_status = S_FINISHED -> {S_READY, S_TRANSFERRING}
      [] OTHER -> {}

\* NULL of a nullable column
NULL == 0

\* ------------------------------------------------------------------- state
VARIABLES
    quantity,     \* product_position.quantity, by position id
    bonus_num,    \* buyer_info.bonus_num, by buyer
    orders,       \* buyer_orders rows with their order_items; the id is the index
    fsm,          \* the buyer's conversation (FSM) state
    invoices,     \* ids of the orders an invoice was sent for
    pay,          \* successful_payment updates being handled, by handler slot
    adm,          \* the admin_set_status call between its SELECT and its UPDATE
    claims,       \* the claims created at the delivery provider
    co,           \* where the confirm_ok that created the order stands, by order id
    audit,        \* history kept for the properties, one record per order
    job,          \* the run of check_delivery_statuses: its batch and position
    yandex,       \* the provider's status of each claim the job specifications follow
    elapsed,      \* <<order id, status>>: the order has been in the status longer
                  \* than the job's timeout for that status
    tx,           \* the create_order and cancel_order transactions in progress:
                  \* the row locks each holds and the ones it goes on to take
    data,         \* the data of the buyer's conversation (FSM) state: the dict
                  \* state.get_data() gives, where the conversation is followed
    http,         \* the call of the delivery client in progress: its method, the
                  \* provider's response and what the call gave its caller
    sched,        \* the scheduler: its clock, the jobs due, the runs in progress
    call          \* the callback query last taken up: who sent it, its kind and
                  \* the order id in its data

vars == <<quantity, bonus_num, orders, fsm, invoices, pay, adm, claims, co, audit,
          job, yandex, elapsed, tx, data, http, sched, call>>

\* the jobs main() adds to the scheduler
JobTypes == {"cancel_old_pending_orders", "check_delivery_statuses", "cleanup_stuck_orders"}

\* the scheduler just started: no job is due and none runs
IdleSched ==
    [clock |-> 0, due |-> {}, running |-> [j \in JobTypes |-> 0], skipped |-> {}]

\* no callback query has been taken up
IdleCall == [pc |-> "idle", from_user |-> NULL, kind |-> "none", order_id |-> NULL]

\* no call of the delivery client is in progress
IdleHttp == [pc |-> "idle", method |-> "none", response |-> <<>>, result |-> "none"]

\* the three tables the ledger operations read and write
db == [quantity |-> quantity, bonus_num |-> bonus_num, orders |-> orders]

\* product_position.price of the catalog
price == [p \in Positions |-> p * Unit]

\* delivery cost quoted for a delivery order; 0 for pickup
DeliveryCost(way) == IF way = "delivery" THEN Unit ELSE 0

RECURSIVE SumOver(_, _)
SumOver(S, f) ==
    IF S = {} THEN 0
    ELSE LET x == CHOOSE y \in S : TRUE IN f[x] + SumOver(S \ {x}, f)

Min(a, b) == IF a <= b THEN a ELSE b
Max(a, b) == IF a >= b THEN a ELSE b

OrderIds == 1..Len(orders)

\* carts: a non-empty dict position id -> qty
Carts ==
    UNION {[S -> 1..MaxQty] : S \in (SUBSET Positions) \ {{}}}

RequestedBonus == {k * Unit : k \in 0..MaxBonus}

\* ------------------------------------------------------------ create_order
\* SUM(price * qty) over the cart, as the loop at step 3 accumulates it
order_total(items) ==
    SumOver(DOMAIN items, [p \in DOMAIN items |-> price[p] * items[p]])

\* create_order without its stock check
lack_none(d, items) == {}

\* the stock check letting through one unit more than the stock
lack_off_by_one(d, items) == {p \in DOMAIN items : items[p] > d.quantity[p] + 1}

\* positions of the cart whose requested qty exceeds the stock (lack_msgs)
lack(d, items) == {p \in DOMAIN items : items[p] > d.quantity[p]}

safe_bonus(used_bonus, cur_bonus, total) ==
    Min(Min(Max(used_bonus, 0), cur_bonus), total)

\* the used_bonus column written by the INSERT of step 5: the argument as passed
inserted_used_bonus(used_bonus, cur_bonus, total) == used_bonus

\* create_order without its stock update
reserved_none(d, items) == d.quantity

\* UPDATE product_position SET quantity = quantity - qty, for every cart entry
reserved(d, items) ==
    [p \in Positions |->
        IF p \in DOMAIN items THEN d.quantity[p] - items[p] ELSE d.quantity[p]]

NewOrder(d, b, items, way, used_bonus) ==
    [buyer_id |-> b,
     status |-> S_PENDING_PAYMENT,
     delivery_way |-> way,
     used_bonus |-> inserted_used_bonus(used_bonus, d.bonus_num[b], order_total(items)),
     delivery_cost |-> DeliveryCost(way),
     items |-> items,
     yandex_claim_id |-> NULL,
     finished_at |-> FALSE,
     payment_date |-> FALSE,
     payment_info |-> FALSE]

\* the tables after create_order(b, items, way, used_bonus) on the tables d; they
\* are d when it returns an error: empty cart, unknown user, unknown position
\* ids, not enough stock
create_order(d, b, items, way, used_bonus) ==
    IF \/ DOMAIN items = {}
       \/ b \notin DOMAIN d.bonus_num
       \/ ~(DOMAIN items \subseteq DOMAIN d.quantity)
       \/ lack(d, items) # {}
    THEN d
    ELSE LET s == safe_bonus(used_bonus, d.bonus_num[b], order_total(items))
         IN [quantity |-> reserved(d, items),
             bonus_num |-> IF s > 0
                           THEN [d.bonus_num EXCEPT ![b] = Max(d.bonus_num[b] - s, 0)]
                           ELSE d.bonus_num,
             orders |-> Append(d.orders, NewOrder(d, b, items, way, used_bonus))]

\* ------------------------------------------------------------ cancel_order
\* cancel_order without its status check
cancellable_any == OrderStatus

\* cancel_order acting on paid orders only
cancellable_paid_only == {S_PROCESSING, S_READY, S_TRANSFERRING}

\* cancel_order acting on unpaid orders only
cancellable_unpaid_only == {S_PENDING_PAYMENT}

\* the statuses cancel_order acts on
cancellable_by_cancel_order == ACTIVE_STATUSES

\* the tables after cancel_order(o) on the tables d
cancel_order(d, o) ==
    IF o \notin DOMAIN d.orders \/ d.orders[o].status \notin cancellable_by_cancel_order
    THEN d
    ELSE [quantity |-> [p \in Positions |->
                          IF p \in DOMAIN d.orders[o].items
                          THEN d.quantity[p] + d.orders[o].items[p] ELSE d.quantity[p]],
          bonus_num |-> IF d.orders[o].used_bonus > 0
                        THEN [d.bonus_num EXCEPT
                                ![d.orders[o].buyer_id] = @ + d.orders[o].used_bonus]
                        ELSE d.bonus_num,
          orders |-> [d.orders EXCEPT ![o].status = S_CANCELLED]]

\* ------------------------------------------------ status updates (manager)
\* mark_order_as_paid_by_bonus without `AND status = 'pending_payment'`
mark_order_as_paid_by_bonus_unguarded(o) ==
    [orders EXCEPT ![o].status = S_PROCESSING, ![o].payment_date = TRUE]

mark_order_as_paid_by_bonus(o) ==
    IF orders[o].status = S_PENDING_PAYMENT
    THEN [orders EXCEPT ![o].status = S_PROCESSING, ![o].payment_date = TRUE]
    ELSE orders

\* what mark_order_as_paid_by_bonus returns: 'UPDATE 1' in result
mark_order_as_paid_by_bonus_ret(o) == orders[o].status = S_PENDING_PAYMENT

\* mark_order_as_paid without `AND status = 'pending_payment'`
mark_order_as_paid_unguarded(o) ==
    [orders EXCEPT ![o].status = S_PROCESSING, ![o].payment_date = TRUE,
                   ![o].payment_info = TRUE]

mark_order_as_paid(o) ==
    IF orders[o].status = S_PENDING_PAYMENT
    THEN [orders EXCEPT ![o].status = S_PROCESSING, ![o].payment_date = TRUE,
                        ![o].payment_info = TRUE]
    ELSE orders

save_claim_id(o, claim_id) == [orders EXCEPT ![o].yandex_claim_id = claim_id]

\* admin_set_status letting every active order be finished
allowed_from_active(to_status, way) ==
    IF to_status = S_FINISHED THEN ACTIVE_STATUSES ELSE ALLOWED_FROM(to_status)

\* allowed_from of admin_set_status
allowed_from(to_status, way) ==
    IF to_status = S_FINISHED
    THEN (IF way = "pickup" THEN {S_READY} ELSE {S_TRANSFERRING})
    ELSE ALLOWED_FROM(to_status)

\* yandex_to_local_map without its "returned_finish" entry
yandex_to_local_map_no_returned(yandex_status) ==
    CASE yandex_status = "delivered_finish" -> S_FINISHED
      [] yandex_status = "failed" -> S_CANCELLED
      [] yandex_status = "cancelled" -> S_CANCELLED
      [] yandex_status = "cancelled_with_payment" -> S_CANCELLED
      [] yandex_status = "cancelled_by_taxi" -> S_CANCELLED
      [] OTHER -> "none"

\* yandex_to_local_map without its "cancelled" entry
yandex_to_local_map_no_cancelled(yandex_status) ==
    CASE yandex_status = "delivered_finish" -> S_FINISHED
      [] yandex_status = "returned_finish" -> S_FINISHED
      [] yandex_status = "failed" -> S_CANCELLED
      [] yandex_status = "cancelled_with_payment" -> S_CANCELLED
      [] yandex_status = "cancelled_by_taxi" -> S_CANCELLED
      [] OTHER -> "none"

yandex_to_local_map(yandex_status) ==
    CASE yandex_status = "delivered_finish" -> S_FINISHED
      [] yandex_status = "returned_finish" -> S_FINISHED
      [] yandex_status = "failed" -> S_CANCELLED
      [] yandex_status = "cancelled" -> S_CANCELLED
      [] yandex_status = "cancelled_with_payment" -> S_CANCELLED
      [] yandex_status = "cancelled_by_taxi" -> S_CANCELLED
      [] OTHER -> "none"

\* sync_order_status_from_yandex without `status NOT IN ('finished', 'cancelled')`
sync_guard_none == {}

\* the statuses the UPDATE of sync_order_status_from_yandex leaves alone
sync_guard == {S_FINISHED, S_CANCELLED}

sync_order_status_from_yandex(o, yandex_status) ==
    LET new_local_status == yandex_to_local_map(yandex_status)
    IN IF new_local_status # "none" /\ orders[o].status \notin sync_guard
       THEN [orders EXCEPT ![o].status = new_local_status, ![o].finished_at = TRUE]
       ELSE orders

\* what sync_order_status_from_yandex returns: bool of the RETURNING id
sync_order_status_from_yandex_ret(o, yandex_status) ==
    /\ yandex_to_local_map(yandex_status) # "none"
    /\ orders[o].status \notin sync_guard

\* statuses a claim can be reported in by the provider
YandexStatuses ==
    {"performer_lookup", "delivered_finish", "returned_finish", "failed",
     "cancelled", "cancelled_with_payment", "cancelled_by_taxi"}

yandex_final_statuses ==
    {"failed", "delivered_finish", "returned_finish", "cancelled",
     "cancelled_with_payment", "cancelled_by_taxi"}

\* ------------------------------------------------------ delivery provider
create_claim(o) ==
    Append(claims, [order |-> o, accepted |-> FALSE, cancelled |-> FALSE])

accept_claim(c) == [claims EXCEPT ![c].accepted = TRUE]

cancel_claim(c) == [claims EXCEPT ![c].cancelled = TRUE]

ClaimsOf(o) == {c \in DOMAIN claims : claims[c].order = o}

\* ------------------------------------------------------------ history
\* what the properties need to know of an order's past: the arguments and the
\* balance of its create_order, the ledger just before it (pre, dropped as soon
\* as another operation writes the ledger), and what happened to it since
NewAudit(b, items, used_bonus) ==
    [requested |-> used_bonus,
     total |-> order_total(items),
     cur_bonus |-> bonus_num[b],
     debited |-> safe_bonus(used_bonus, bonus_num[b], order_total(items)),
     pre |-> <<[quantity |-> quantity, bonus_num |-> bonus_num]>>,
     released |-> 0,
     released_by |-> "none",
     provider |-> "none",
     confirmed |-> FALSE,
     paid |-> 0]

\* the history after the tables became d by operation `by` on order o
AuditAfter(d, o, by) ==
    LET credited == d.quantity # quantity \/ d.bonus_num # bonus_num
    IN [x \in DOMAIN audit |->
          IF x = o
          THEN [audit[x] EXCEPT
                  !.released = @ + (IF credited THEN 1 ELSE 0),
                  !.released_by = IF credited THEN by ELSE @,
                  !.paid = @ + (IF orders[o].status = S_PENDING_PAYMENT
                                   /\ d.orders[o].status = S_PROCESSING
                                THEN 1 ELSE 0)]
          ELSE IF credited THEN [audit[x] EXCEPT !.pre = <<>>] ELSE audit[x]]

\* the tables become d
Apply(d, o, by) ==
    /\ quantity' = d.quantity
    /\ bonus_num' = d.bonus_num
    /\ orders' = d.orders
    /\ audit' = AuditAfter(d, o, by)

\* the tables become d by a cancellation the buyer or an admin asked for;
\* provider records what the delivery provider had answered when the order
\* became cancelled
ApplyVia(d, o, provider) ==
    /\ quantity' = d.quantity
    /\ bonus_num' = d.bonus_num
    /\ orders' = d.orders
    /\ audit' = [AuditAfter(d, o, "cancel_order") EXCEPT
                   ![o].provider = IF orders[o].status # S_CANCELLED
                                      /\ d.orders[o].status = S_CANCELLED
                                   THEN provider ELSE @]

\* only the orders table changes
ApplyOrders(ords, o) == Apply([db EXCEPT !.orders = ords], o, "none")

\* ------------------------------------------------------------ conversation
\* go_confirm: the cart and delivery steps end on the confirmation screen
go_confirm(b) ==
    /\ fsm[b] # "confirm_order"
    /\ fsm' = [fsm EXCEPT ![b] = "confirm_order"]
    /\ UNCHANGED <<quantity, bonus_num, orders, invoices, pay, adm, claims, co, audit, job, yandex, elapsed, tx, data, http, sched, call>>

\* cb_back_main / start_create: state.clear() from any screen
cb_back_main(b) ==
    /\ fsm[b] # "none"
    /\ fsm' = [fsm EXCEPT ![b] = "none"]
    /\ UNCHANGED <<quantity, bonus_num, orders, invoices, pay, adm, claims, co, audit, job, yandex, elapsed, tx, data, http, sched, call>>

\* confirm_ok up to the return of create_order; on an error state.clear()
confirm_ok(b, items, way, used_bonus) ==
    /\ fsm[b] = "confirm_order"
    /\ Len(orders) < MaxOrders
    /\ LET d == create_order(db, b, items, way, used_bonus)
       IN /\ quantity' = d.quantity
          /\ bonus_num' = d.bonus_num
          /\ orders' = d.orders
          /\ IF d = db
             THEN /\ fsm' = [fsm EXCEPT ![b] = "none"]
                  /\ UNCHANGED <<co, audit>>
             ELSE /\ fsm' = fsm
                  /\ co' = Append(co, "branch")
                  /\ audit' = Append([x \in DOMAIN audit |-> [audit[x] EXCEPT !.pre = <<>>]],
                                      NewAudit(b, items, used_bonus))
    /\ UNCHANGED <<invoices, pay, adm, claims, job, yandex, elapsed, tx, data, http, sched, call>>

\* final_amount_to_pay of confirm_ok, from the values of the conversation state
final_amount_to_pay(o) ==
    audit[o].total + orders[o].delivery_cost - audit[o].requested

\* confirm_ok, case 1: the invoice is sent
confirm_ok_invoice(o) ==
    /\ co[o] = "branch"
    /\ final_amount_to_pay(o) >= MIN_PAYMENT_AMOUNT
    /\ invoices' = invoices \cup {o}
    /\ fsm' = [fsm EXCEPT ![orders[o].buyer_id] = "waiting_payment"]
    /\ co' = [co EXCEPT ![o] = "done"]
    /\ UNCHANGED <<quantity, bonus_num, orders, pay, adm, claims, audit, job, yandex, elapsed, tx, data, http, sched, call>>

\* confirm_ok, case 1 when send_invoice raises TelegramBadRequest, and case 2
\* (amount below the minimum): cancel_order and state.clear()
confirm_ok_cancel(o) ==
    /\ co[o] = "branch"
    /\ final_amount_to_pay(o) > 0
    /\ Apply(cancel_order(db, o), o, "cancel_order")
    /\ fsm' = [fsm EXCEPT ![orders[o].buyer_id] = "none"]
    /\ co' = [co EXCEPT ![o] = "done"]
    /\ UNCHANGED <<invoices, pay, adm, claims, job, yandex, elapsed, tx, data, http, sched, call>>

\* confirm_ok, case 3: mark_order_as_paid_by_bonus, then the claim for a delivery
confirm_ok_bonus(o) ==
    /\ co[o] = "branch"
    /\ final_amount_to_pay(o) <= 0
    /\ ApplyOrders(mark_order_as_paid_by_bonus(o), o)
    /\ IF orders[o].delivery_way = "delivery"
       THEN co' = [co EXCEPT ![o] = "create"] /\ fsm' = fsm
       ELSE /\ co' = [co EXCEPT ![o] = "done"]
            /\ fsm' = [fsm EXCEPT ![orders[o].buyer_id] = "none"]
    /\ UNCHANGED <<invoices, pay, adm, claims, job, yandex, elapsed, tx, data, http, sched, call>>

\* create_yandex_delivery_claim called by confirm_ok: create_claim answers
confirm_ok_create_claim(o, ok) ==
    /\ co[o] = "create"
    /\ IF ok
       THEN /\ Len(claims) < MaxClaims
            /\ claims' = create_claim(o)
            /\ co' = [co EXCEPT ![o] = "accept"]
            /\ fsm' = fsm
       ELSE /\ claims' = claims
            /\ co' = [co EXCEPT ![o] = "done"]
            /\ fsm' = [fsm EXCEPT ![orders[o].buyer_id] = "none"]
    /\ UNCHANGED <<quantity, bonus_num, orders, invoices, pay, adm, audit, job, yandex, elapsed, tx, data, http, sched, call>>

\* save_claim_id whatever accept_claim answered
accepted_claim_saved_always(o, claim_id, accepted_info) == save_claim_id(o, claim_id)

\* `if accepted_info:` save_claim_id, else only the admins are notified
accepted_claim_saved(o, claim_id, accepted_info) ==
    IF accepted_info THEN save_claim_id(o, claim_id) ELSE orders

\* the claim confirm_ok created: the only one of its order
ClaimOf(o) == CHOOSE c \in ClaimsOf(o) : TRUE

\* ... accept_claim answers; save_claim_id on success; state.clear()
confirm_ok_accept_claim(o, ok) ==
    /\ co[o] = "accept"
    /\ claims' = IF ok THEN accept_claim(ClaimOf(o)) ELSE claims
    /\ orders' = accepted_claim_saved(o, ClaimOf(o), ok)
    /\ co' = [co EXCEPT ![o] = "done"]
    /\ fsm' = [fsm EXCEPT ![orders[o].buyer_id] = "none"]
    /\ UNCHANGED <<quantity, bonus_num, invoices, pay, adm, audit, job, yandex, elapsed, tx, data, http, sched, call>>

\* ------------------------------------------------ successful_payment_handler
IdleSlot == [pc |-> "idle", order |-> NULL, claim |-> NULL]

\* the router takes a successful_payment update only in CreateOrder.waiting_payment
payment_filter(state) == state = "waiting_payment"

\* Telegram delivers the successful_payment update of an invoice; the handler,
\* if the filter lets it start, runs mark_order_as_paid and reads the order
successful_payment_handler(h, o) ==
    /\ pay[h].pc = "idle"
    /\ \A g \in Handlers : g < h => pay[g].pc # "idle"
    /\ o \in invoices
    /\ IF payment_filter(fsm[orders[o].buyer_id])
       THEN /\ orders' = mark_order_as_paid(o)
            /\ pay' = [pay EXCEPT ![h] =
                         [pc |-> IF orders[o].delivery_way = "delivery"
                                 THEN "create" ELSE "clear",
                          order |-> o, claim |-> NULL]]
       ELSE UNCHANGED <<orders, pay>>
    /\ audit' = [audit EXCEPT
                   ![o].paid = @ + (IF orders[o].status = S_PENDING_PAYMENT
                                       /\ orders'[o].status = S_PROCESSING
                                    THEN 1 ELSE 0),
                   ![o].confirmed = @ \/ orders[o].status = S_PENDING_PAYMENT]
    /\ UNCHANGED <<quantity, bonus_num, fsm, invoices, adm, claims, co, job, yandex, elapsed, tx, data, http, sched, call>>

\* create_yandex_delivery_claim called by the payment handler: create_claim answers
payment_create_claim(h, ok) ==
    /\ pay[h].pc = "create"
    /\ IF ok
       THEN /\ Len(claims) < MaxClaims
            /\ claims' = create_claim(pay[h].order)
            /\ pay' = [pay EXCEPT ![h].pc = "accept", ![h].claim = Len(claims) + 1]
       ELSE /\ claims' = claims
            /\ pay' = [pay EXCEPT ![h].pc = "clear"]
    /\ UNCHANGED <<quantity, bonus_num, orders, fsm, invoices, adm, co, audit, job, yandex, elapsed, tx, data, http, sched, call>>

\* ... accept_claim answers; save_claim_id on success
payment_accept_claim(h, ok) ==
    /\ pay[h].pc = "accept"
    /\ claims' = IF ok THEN accept_claim(pay[h].claim) ELSE claims
    /\ orders' = accepted_claim_saved(pay[h].order, pay[h].claim, ok)
    /\ pay' = [pay EXCEPT ![h].pc = "clear", ![h].claim = NULL]
    /\ UNCHANGED <<quantity, bonus_num, fsm, invoices, adm, co, audit, job, yandex, elapsed, tx, data, http, sched, call>>

\* the end of the payment handler: state.clear()
payment_clear(h) ==
    /\ pay[h].pc = "clear"
    /\ fsm' = [fsm EXCEPT ![orders[pay[h].order].buyer_id] = "none"]
    /\ pay' = [pay EXCEPT ![h] = IdleSlot]
    /\ UNCHANGED <<quantity, bonus_num, orders, invoices, adm, claims, co, audit, job, yandex, elapsed, tx, data, http, sched, call>>

\* ------------------------------------------------------------ cancellations
\* cancel_payment_invoice: the cancel button of the invoice message
cancel_payment_invoice(o) ==
    /\ o \in invoices
    /\ ApplyVia(cancel_order(db, o), o,
                IF orders[o].yandex_claim_id = NULL THEN "no_claim" ELSE "not_asked")
    /\ fsm' = [fsm EXCEPT ![orders[o].buyer_id] = "none"]
    /\ UNCHANGED <<invoices, pay, adm, claims, co, job, yandex, elapsed, tx, data, http, sched, call>>

\* what get_claim_info answers: the status of the claim, or None
ClaimInfos == YandexStatuses \cup {"none"}

\* what get_cancellation_info answers: cancel_state, or None
CancelInfos == {"free", "paid", "unavailable", "none"}

\* every answer of get_cancellation_info taken for a free cancellation
free_cancel_any(cancel_info) == TRUE

\* cancel_info and cancel_info.get("cancel_state") == "free"
free_cancel(cancel_info) == cancel_info = "free"

\* nothing is written
rejected == [d |-> db, cl |-> claims, provider |-> "rejected"]

\* order_cancel_yes (buyer), given the provider's answers: the tables and the
\* provider's claims after it
order_cancel_yes_effect(o, claim_info, cancel_info, cancel_ok) ==
    IF orders[o].yandex_claim_id = NULL
    THEN [d |-> cancel_order(db, o), cl |-> claims, provider |-> "no_claim"]
    ELSE IF claim_info = "none" THEN rejected
    ELSE IF ~free_cancel(cancel_info) THEN rejected
    ELSE IF ~cancel_ok THEN rejected
    ELSE [d |-> cancel_order(db, o),
          cl |-> cancel_claim(orders[o].yandex_claim_id),
          provider |-> "cancel_ok"]

\* adm_order_cancel_yes (admin), given the provider's answers
adm_order_cancel_yes_effect(o, claim_info, cancel_info, cancel_ok) ==
    IF orders[o].yandex_claim_id = NULL
    THEN [d |-> cancel_order(db, o), cl |-> claims, provider |-> "no_claim"]
    ELSE IF claim_info = "none" THEN rejected
    ELSE IF claim_info \in yandex_final_statuses
    THEN [d |-> cancel_order(db, o), cl |-> claims, provider |-> "terminal"]
    ELSE IF ~free_cancel(cancel_info) THEN rejected
    ELSE IF ~cancel_ok THEN rejected
    ELSE [d |-> cancel_order(db, o),
          cl |-> cancel_claim(orders[o].yandex_claim_id),
          provider |-> "cancel_ok"]

\* the provider's answers the cancellation steps are run with: get_claim_info
\* (no answer, a status that is not final, a final one), get_cancellation_info
\* (free or not) and whether cancel_claim succeeds; the provider is not asked
\* about an order without a claim
ProviderAnswers(o) ==
    IF orders[o].yandex_claim_id = NULL
    THEN {<<"none", "none", FALSE>>}
    ELSE {"none", "performer_lookup", "delivered_finish"} \X {"free", "paid"} \X BOOLEAN

\* order_cancel_yes (buyer): without a claim cancel_order at once; with a claim
\* only after the provider cancelled it for free
order_cancel_yes(o, a) ==
    LET e == order_cancel_yes_effect(o, a[1], a[2], a[3])
    IN /\ ApplyVia(e.d, o, e.provider)
       /\ claims' = e.cl
       /\ UNCHANGED <<fsm, invoices, pay, adm, co, job, yandex, elapsed, tx, data, http, sched, call>>

\* adm_order_cancel_yes (admin): without a claim cancel_order at once; with a
\* claim after the provider reported a final status or cancelled it for free
adm_order_cancel_yes(o, a) ==
    LET e == adm_order_cancel_yes_effect(o, a[1], a[2], a[3])
    IN /\ ApplyVia(e.d, o, e.provider)
       /\ claims' = e.cl
       /\ UNCHANGED <<fsm, invoices, pay, adm, co, job, yandex, elapsed, tx, data, http, sched, call>>

\* admin_cancel of the manager: the orders table after it (no handler and no
\* job calls it)
admin_cancel(o) ==
    IF orders[o].status \in ACTIVE_STATUSES
    THEN [orders EXCEPT ![o].status = S_CANCELLED, ![o].finished_at = TRUE]
    ELSE orders

\* --------------------------------------------------------- admin_set_status
IdleAdm(result) == [pc |-> "idle", order |-> NULL, to |-> S_WAITING, result |-> result]

\* `cur not in allowed_from` is false: the call goes on to its UPDATE
admin_set_status_passes(o, to_status) ==
    orders[o].status \in allowed_from(to_status, orders[o].delivery_way)

\* the UPDATE ... WHERE status = ANY(allowed_from) RETURNING 1: the orders
\* table after it and bool(val)
admin_set_status_sql(o, to_status) ==
    LET hit == orders[o].status \in allowed_from(to_status, orders[o].delivery_way)
    IN [orders |-> IF hit
                   THEN [orders EXCEPT ![o].status = to_status,
                                       ![o].finished_at =
                                          IF to_status \in {S_FINISHED, S_CANCELLED}
                                          THEN TRUE ELSE @]
                   ELSE orders,
        ret |-> hit]

\* the target statuses a caller can pass: the enum and any other string
AdminTargets == OrderStatus \cup {"other"}

\* the SELECT of admin_set_status and the check of the status read: False is
\* returned at once when the status read is not in allowed_from
admin_set_status_read(o, to_status) ==
    /\ adm.pc = "idle"
    /\ adm' = IF admin_set_status_passes(o, to_status)
              THEN [pc |-> "read", order |-> o, to |-> to_status, result |-> FALSE]
              ELSE IdleAdm(FALSE)
    /\ UNCHANGED <<quantity, bonus_num, orders, fsm, invoices, pay, claims, co, audit, job, yandex, elapsed, tx, data, http, sched, call>>

\* the UPDATE of admin_set_status and its return
admin_set_status_update ==
    /\ adm.pc = "read"
    /\ orders' = admin_set_status_sql(adm.order, adm.to).orders
    /\ adm' = IdleAdm(admin_set_status_sql(adm.order, adm.to).ret)
    /\ UNCHANGED <<quantity, bonus_num, fsm, invoices, pay, claims, co, audit, job, yandex, elapsed, tx, data, http, sched, call>>

\* ---------------------------------------------------------------- catalog
\* update_quantity: the admin sets the stock of a position (a number >= 0)
update_quantity(p, qty) ==
    /\ quantity[p] # qty
    /\ quantity' = [quantity EXCEPT ![p] = qty]
    /\ audit' = [x \in DOMAIN audit |-> [audit[x] EXCEPT !.pre = <<>>]]
    /\ UNCHANGED <<bonus_num, orders, fsm, invoices, pay, adm, claims, co, job, yandex, elapsed, tx, data, http, sched, call>>

\* ------------------------------------------------- delivery status and jobs
\* refresh_delivery_status -> _format_delivery_status: the provider's status
\* of the order's claim is synchronised
refresh_delivery_status(o, yandex_status) ==
    /\ orders[o].yandex_claim_id # NULL
    /\ orders' = sync_order_status_from_yandex(o, yandex_status)
    /\ orders' # orders
    /\ UNCHANGED <<quantity, bonus_num, fsm, invoices, pay, adm, claims, co, audit, job, yandex, elapsed, tx, data, http, sched, call>>

\* the delivery job looking at every delivery order that is under way
get_active_yandex_deliveries_all ==
    {o \in OrderIds :
        orders[o].delivery_way = "delivery"
        /\ orders[o].status \in {S_PROCESSING, S_TRANSFERRING}}

\* the orders the delivery job looks at
get_active_yandex_deliveries ==
    {o \in OrderIds :
        \/ orders[o].status = S_TRANSFERRING
        \/ orders[o].status \in ACTIVE_STATUSES /\ orders[o].yandex_claim_id # NULL}

\* check_delivery_statuses, for one order of the batch
check_delivery_statuses(o, yandex_status) ==
    /\ o \in get_active_yandex_deliveries
    /\ IF orders[o].yandex_claim_id = NULL
       THEN Apply(cancel_order(db, o), o, "cancel_order")
       ELSE /\ orders' = sync_order_status_from_yandex(o, yandex_status)
            /\ orders' # orders
            /\ UNCHANGED <<quantity, bonus_num, audit>>
    /\ UNCHANGED <<fsm, invoices, pay, adm, claims, co, job, yandex, elapsed, tx, data, http, sched, call>>

\* the release of an order's reservation with its cancellation, as one
\* statement guarded by the expected status
release_if(d, o, expected) ==
    IF d.orders[o].status # expected
    THEN d
    ELSE [cancel_order(d, o) EXCEPT !.orders[o].finished_at = TRUE]

\* cancel_old_pending_orders, for one order older than the timeout
cancel_old_pending_orders(o) ==
    /\ orders[o].status = S_PENDING_PAYMENT
    /\ Apply(release_if(db, o, S_PENDING_PAYMENT), o, "expiry")
    /\ UNCHANGED <<fsm, invoices, pay, adm, claims, co, job, yandex, elapsed, tx, data, http, sched, call>>

\* cancel_stuck_processing_orders, for one order older than the grace period
cancel_stuck_processing_orders(o) ==
    /\ orders[o].status = S_PROCESSING
    /\ orders[o].delivery_way = "delivery"
    /\ orders[o].yandex_claim_id = NULL
    /\ Apply(release_if(db, o, S_PROCESSING), o, "cleanup")
    /\ UNCHANGED <<fsm, invoices, pay, adm, claims, co, job, yandex, elapsed, tx, data, http, sched, call>>

\* the scheduler has not started a run of check_delivery_statuses
IdleJob == [pc |-> "idle", batch |-> <<>>, i |-> 0, asked |-> {}, failed |-> {}]

\* -------------------------------------------------------------------- spec
Init ==
    /\ quantity = [p \in Positions |-> MaxQty]
    /\ bonus_num = [b \in Buyers |-> Unit]
    /\ orders = <<>>
    /\ fsm = [b \in Buyers |-> "none"]
    /\ invoices = {}
    /\ pay = [h \in Handlers |-> IdleSlot]
    /\ adm = IdleAdm(FALSE)
    /\ claims = <<>>
    /\ co = <<>>
    /\ audit = <<>>
    /\ job = IdleJob
    /\ yandex = <<>>
    /\ elapsed = {}
    /\ tx = <<>>
    /\ data = <<>>
    /\ http = IdleHttp
    /\ sched = IdleSched
    /\ call = IdleCall

Next ==
    \/ \E b \in Buyers : go_confirm(b)
    \/ \E b \in Buyers : cb_back_main(b)
    \/ \E b \in Buyers, items \in Carts, way \in DeliveryWay, used_bonus \in RequestedBonus :
          confirm_ok(b, items, way, used_bonus)
    \/ \E o \in OrderIds : confirm_ok_invoice(o)
    \/ \E o \in OrderIds : confirm_ok_cancel(o)
    \/ \E o \in OrderIds : confirm_ok_bonus(o)
    \/ \E o \in OrderIds, ok \in BOOLEAN : confirm_ok_create_claim(o, ok)
    \/ \E o \in OrderIds, ok \in BOOLEAN : confirm_ok_accept_claim(o, ok)
    \/ \E h \in Handlers, o \in OrderIds : successful_payment_handler(h, o)
    \/ \E h \in Handlers, ok \in BOOLEAN : payment_create_claim(h, ok)
    \/ \E h \in Handlers, ok \in BOOLEAN : payment_accept_claim(h, ok)
    \/ \E h \in Handlers : payment_clear(h)
    \/ \E o \in OrderIds : cancel_payment_invoice(o)
    \/ \E o \in OrderIds : \E a \in ProviderAnswers(o) : order_cancel_yes(o, a)
    \/ \E o \in OrderIds : \E a \in ProviderAnswers(o) : adm_order_cancel_yes(o, a)
    \/ \E o \in OrderIds, to_status \in AdminTargets : admin_set_status_read(o, to_status)
    \/ admin_set_status_update
    \/ \E p \in Positions, qty \in 0..MaxQty : update_quantity(p, qty)
    \/ \E o \in OrderIds, ys \in YandexStatuses : refresh_delivery_status(o, ys)
    \/ \E o \in OrderIds, ys \in YandexStatuses : check_delivery_statuses(o, ys)
    \/ \E o \in OrderIds : cancel_old_pending_orders(o)
    \/ \E o \in OrderIds : cancel_stuck_processing_orders(o)

Spec == Init /\ [][Next]_vars

\* ------------------------------------------- the delivery job over a batch
\* number of delivery orders the job specification starts with
NumJobOrders == 3

\* a paid delivery order for which create_claim succeeded: in processing or
\* moved to transferring by an admin, with the claim id saved (accept_claim
\* succeeded) or not
JobOrder(o, status, saved) ==
    [buyer_id |-> 1,
     status |-> status,
     delivery_way |-> "delivery",
     used_bonus |-> 0,
     delivery_cost |-> DeliveryCost("delivery"),
     items |-> (1 :> 1),
     yandex_claim_id |-> IF saved THEN o ELSE NULL,
     finished_at |-> FALSE,
     payment_date |-> TRUE,
     payment_info |-> TRUE]

JobAudit ==
    [requested |-> 0, total |-> price[1], cur_bonus |-> Unit, debited |-> 0,
     pre |-> <<>>, released |-> 0, released_by |-> "none", provider |-> "none",
     confirmed |-> TRUE, paid |-> 1]

JobInit ==
    /\ quantity = [p \in Positions |-> MaxQty]
    /\ bonus_num = [b \in Buyers |-> Unit]
    /\ \E st \in [1..NumJobOrders -> {S_PROCESSING, S_TRANSFERRING}],
          sv \in [1..NumJobOrders -> BOOLEAN] :
          /\ orders = [o \in 1..NumJobOrders |-> JobOrder(o, st[o], sv[o])]
          /\ claims = [o \in 1..NumJobOrders |->
                          [order |-> o, accepted |-> sv[o], cancelled |-> FALSE]]
    /\ fsm = [b \in Buyers |-> "none"]
    /\ invoices = {}
    /\ pay = [h \in Handlers |-> IdleSlot]
    /\ adm = IdleAdm(FALSE)
    /\ co = [o \in 1..NumJobOrders |-> "done"]
    /\ audit = [o \in 1..NumJobOrders |-> JobAudit]
    /\ job = IdleJob
    /\ yandex = [c \in 1..NumJobOrders |-> "performer_lookup"]
    /\ elapsed = {}
    /\ tx = <<>>
    /\ data = <<>>
    /\ http = IdleHttp
    /\ sched = IdleSched
    /\ call = IdleCall

\* the rows of get_active_yandex_deliveries in the order the query gives them
Batches ==
    LET S == get_active_yandex_deliveries
    IN {b \in [1..Cardinality(S) -> S] : \A i, j \in DOMAIN b : b[i] = b[j] => i = j}

\* check_delivery_statuses up to its loop: the batch is read, with each row's
\* id and yandex_claim_id; an empty batch ends the run
check_delivery_statuses_start(b) ==
    /\ job.pc = "idle"
    /\ job' = [pc |-> IF Len(b) = 0 THEN "done" ELSE "loop",
               batch |-> [i \in DOMAIN b |->
                            [id |-> b[i], yandex_claim_id |-> orders[b[i]].yandex_claim_id]],
               i |-> 1, asked |-> {}, failed |-> {}]
    /\ UNCHANGED <<quantity, bonus_num, orders, fsm, invoices, pay, adm, claims, co,
                   audit, yandex, elapsed, tx, data, http, sched, call>>

\* the loop variable moves to the next row, or the loop and the run end
NextRow(j) ==
    [j EXCEPT !.i = @ + 1, !.pc = IF j.i + 1 > Len(j.batch) THEN "done" ELSE "loop"]

\* the row has no claim id: cancel_order and return
check_delivery_statuses_unclaimed ==
    /\ job.pc = "loop"
    /\ job.batch[job.i].yandex_claim_id = NULL
    /\ Apply(cancel_order(db, job.batch[job.i].id), job.batch[job.i].id, "cancel_order")
    /\ job' = [job EXCEPT !.pc = "done"]
    /\ UNCHANGED <<fsm, invoices, pay, adm, claims, co, yandex, elapsed, tx, data, http, sched, call>>

\* how a lookup can end: get_claim_info gives nothing, something in the try
\* block raises, or the provider's status of the claim is read and synchronised
Lookups == {"none", "raise", "status"}

\* the row has a claim id: get_claim_info and sync_order_status_from_yandex
check_delivery_statuses_lookup(answer) ==
    /\ job.pc = "loop"
    /\ job.batch[job.i].yandex_claim_id # NULL
    /\ LET o == job.batch[job.i].id
           yandex_status == yandex[job.batch[job.i].yandex_claim_id]
       IN /\ orders' = IF answer = "status"
                       THEN sync_order_status_from_yandex(o, yandex_status)
                       ELSE orders
          /\ job' = [NextRow(job) EXCEPT
                       !.asked = @ \cup {o},
                       !.failed = IF answer = "status" THEN @ ELSE @ \cup {o}]
    /\ UNCHANGED <<quantity, bonus_num, fsm, invoices, pay, adm, claims, co, audit, yandex, elapsed, tx, data, http, sched, call>>

\* the run has returned; the scheduler starts the next one at its interval
check_delivery_statuses_end ==
    /\ job.pc = "done"
    /\ job' = IdleJob
    /\ UNCHANGED <<quantity, bonus_num, orders, fsm, invoices, pay, adm, claims, co,
                   audit, yandex, elapsed, tx, data, http, sched, call>>

\* the provider moves a claim that is in no final status to another status
yandex_moves(c, yandex_status) ==
    /\ yandex[c] \notin yandex_final_statuses
    /\ yandex[c] # yandex_status
    /\ yandex' = [yandex EXCEPT ![c] = yandex_status]
    /\ UNCHANGED <<quantity, bonus_num, orders, fsm, invoices, pay, adm, claims, co,
                   audit, job, elapsed, tx, data, http, sched, call>>

\* the provider statuses the job specification moves claims through
JobYandexStatuses == {"performer_lookup", "delivered_finish", "returned_finish", "cancelled"}

JobNext ==
    \/ \E b \in Batches : check_delivery_statuses_start(b)
    \/ check_delivery_statuses_unclaimed
    \/ \E answer \in Lookups : check_delivery_statuses_lookup(answer)
    \/ check_delivery_statuses_end
    \/ \E c \in DOMAIN yandex, ys \in JobYandexStatuses : yandex_moves(c, ys)

JobSpec == JobInit /\ [][JobNext]_vars

\* the scheduler starts the job at every interval and a started run goes on to
\* its end; the lookup of an order's claim that is tried again and again
\* succeeds in the end
JobFair ==
    /\ JobSpec
    /\ WF_vars(\E b \in Batches : check_delivery_statuses_start(b))
    /\ WF_vars(check_delivery_statuses_unclaimed)
    /\ WF_vars(\E answer \in Lookups : check_delivery_statuses_lookup(answer))
    /\ WF_vars(check_delivery_statuses_end)
    /\ \A o \in 1..NumJobOrders :
          SF_vars(/\ job.pc = "loop"
                  /\ job.batch[job.i].id = o
                  /\ check_delivery_statuses_lookup("status"))

\* ------------------------------------------------- the jobs and their timers
\* number of orders the timer specification starts with
NumTimerOrders == 1

PENDING_ORDER_TIMEOUT_MINUTES == 15

\* timeout of cleanup_stuck_orders
STUCK_TIMEOUT_MINUTES == 20

\* the timeout a job applies to the status it looks for, in minutes
TimeoutOf(status) ==
    CASE status = S_PENDING_PAYMENT -> PENDING_ORDER_TIMEOUT_MINUTES
      [] status = S_PROCESSING -> STUCK_TIMEOUT_MINUTES
      [] OTHER -> 0

\* the cart of the orders the timer specification starts with
TimerCart == [p \in Positions |-> 1]

\* an order for which the invoice was sent and no payment has arrived
TimerInit ==
    /\ \E way \in [1..NumTimerOrders -> DeliveryWay],
          used \in [1..NumTimerOrders -> {0, Unit}] :
          /\ orders = [o \in 1..NumTimerOrders |->
                          NewOrder([bonus_num |-> [b \in Buyers |-> Unit]], 1,
                                   TimerCart, way[o], used[o])]
          /\ audit = [o \in 1..NumTimerOrders |->
                        [requested |-> used[o], total |-> order_total(TimerCart),
                         cur_bonus |-> Unit, debited |-> used[o], pre |-> <<>>,
                         released |-> 0, released_by |-> "none", provider |-> "none",
                         confirmed |-> FALSE, paid |-> 0]]
          /\ bonus_num = [b \in Buyers |->
                             NumTimerOrders * Unit - SumOver(1..NumTimerOrders, used)]
    /\ quantity = [p \in Positions |-> 0]
    /\ fsm = [b \in Buyers |-> "waiting_payment"]
    /\ invoices = 1..NumTimerOrders
    /\ pay = [h \in Handlers |-> IdleSlot]
    /\ adm = IdleAdm(FALSE)
    /\ claims = <<>>
    /\ co = [o \in 1..NumTimerOrders |-> "done"]
    /\ job = IdleJob
    /\ yandex = [c \in 1..MaxClaims |-> "performer_lookup"]
    /\ elapsed = {}
    /\ tx = <<>>
    /\ data = <<>>
    /\ http = IdleHttp
    /\ sched = IdleSched
    /\ call = IdleCall

\* time passes: the order has now been in its status longer than the timeout
timeout_elapses(o) ==
    /\ TimeoutOf(orders[o].status) > 0
    /\ <<o, orders[o].status>> \notin elapsed
    /\ elapsed' = elapsed \cup {<<o, orders[o].status>>}
    /\ UNCHANGED <<quantity, bonus_num, orders, fsm, invoices, pay, adm, claims, co,
                   audit, job, yandex, tx, data, http, sched, call>>

\* a tick of the cancel_old_pending_orders job finds the order
expiry_tick(o) ==
    /\ <<o, S_PENDING_PAYMENT>> \in elapsed
    /\ cancel_old_pending_orders(o)

\* a tick of the cleanup_stuck_orders job finds the order
cleanup_tick(o) ==
    /\ <<o, S_PROCESSING>> \in elapsed
    /\ cancel_stuck_processing_orders(o)

TimerNext ==
    \/ \E o \in OrderIds : timeout_elapses(o)
    \/ \E o \in OrderIds : expiry_tick(o)
    \/ \E o \in OrderIds : cleanup_tick(o)
    \/ \E h \in Handlers, o \in OrderIds : successful_payment_handler(h, o)
    \/ \E h \in Handlers, ok \in BOOLEAN : payment_create_claim(h, ok)
    \/ \E h \in Handlers, ok \in BOOLEAN : payment_accept_claim(h, ok)
    \/ \E h \in Handlers : payment_clear(h)
    \/ \E o \in OrderIds : cancel_payment_invoice(o)
    \/ \E o \in OrderIds, to_status \in AdminTargets : admin_set_status_read(o, to_status)
    \/ admin_set_status_update
    \/ \E b \in Batches : check_delivery_statuses_start(b)
    \/ check_delivery_statuses_unclaimed
    \/ \E answer \in Lookups : check_delivery_statuses_lookup(answer)
    \/ check_delivery_statuses_end

TimerSpec == TimerInit /\ [][TimerNext]_vars

\* the scheduler runs each interval job again and again
TimerFair ==
    /\ TimerSpec
    /\ \A o \in 1..NumTimerOrders : WF_vars(expiry_tick(o))
    /\ \A o \in 1..NumTimerOrders : WF_vars(cleanup_tick(o))

\* ------------------------------------- row locks of create_order, cancel_order
\* number of transactions that run at the same time
NumTx == 2

\* number of orders the lock specification starts with
NumLockOrders == 2

Txs == 1..NumTx

\* the rows a transaction locks
PositionRow(p) == <<"product_position", p>>
BuyerRow(b) == <<"buyer_info", b>>
OrderRow(o) == <<"buyer_orders", o>>

IdleTx ==
    [op |-> "none", order |-> NULL, items |-> <<>>, used_bonus |-> 0,
     stage |-> "idle", todo |-> <<>>, held |-> {}]

\* the positions S in ascending id: the order in which the scan of
\* product_position comes to the rows, the same for every transaction
RECURSIVE Ascending(_)
Ascending(S) ==
    IF S = {} THEN <<>>
    ELSE LET least == CHOOSE x \in S : \A y \in S : x <= y
         IN <<least>> \o Ascending(S \ {least})

\* the order_items rows of an order as the query without ORDER BY gives them:
\* in the order of their INSERT, which is the order in which the buyer put the
\* positions into the cart; the starting orders were filled in opposite orders
order_items_rows(o) ==
    LET up == Ascending(DOMAIN orders[o].items)
    IN IF o % 2 = 1 THEN up ELSE [i \in DOMAIN up |-> up[Len(up) + 1 - i]]

\* orders in pending_payment over both positions, and the stock left
LockInit ==
    /\ \E used \in [1..NumLockOrders -> {0, Unit}] :
          /\ orders = [o \in 1..NumLockOrders |->
                          NewOrder([bonus_num |-> [b \in Buyers |-> Unit]], 1,
                                   TimerCart, "pickup", used[o])]
          /\ audit = [o \in 1..NumLockOrders |->
                        [requested |-> used[o], total |-> order_total(TimerCart),
                         cur_bonus |-> Unit, debited |-> used[o], pre |-> <<>>,
                         released |-> 0, released_by |-> "none", provider |-> "none",
                         confirmed |-> FALSE, paid |-> 0]]
          /\ bonus_num = [b \in Buyers |->
                             NumLockOrders * Unit - SumOver(1..NumLockOrders, used)]
    /\ quantity = [p \in Positions |-> MaxQty]
    /\ fsm = [b \in Buyers |-> "none"]
    /\ invoices = {}
    /\ pay = [h \in Handlers |-> IdleSlot]
    /\ adm = IdleAdm(FALSE)
    /\ claims = <<>>
    /\ co = [o \in 1..NumLockOrders |-> "done"]
    /\ job = IdleJob
    /\ yandex = <<>>
    /\ elapsed = {}
    /\ tx = [t \in Txs |-> IdleTx]
    /\ data = <<>>
    /\ http = IdleHttp
    /\ sched = IdleSched
    /\ call = IdleCall

\* cancel_order starts: SELECT ... FROM buyer_orders WHERE id = $1 FOR UPDATE
cancel_order_begin(t, o) ==
    /\ tx[t].stage = "idle"
    /\ o <= NumLockOrders
    /\ tx' = [tx EXCEPT ![t] = [IdleTx EXCEPT !.op = "cancel_order", !.order = o,
                                             !.stage = "order",
                                             !.todo = <<OrderRow(o)>>]]
    /\ UNCHANGED <<quantity, bonus_num, orders, fsm, invoices, pay, adm, claims, co,
                   audit, job, yandex, elapsed, data, http, sched, call>>

\* create_order starts: SELECT * FROM product_position WHERE id = ANY(pids) FOR
\* UPDATE locks the rows one by one, in the order the scan comes to them
create_order_begin(t, items, used_bonus) ==
    /\ tx[t].stage = "idle"
    /\ Len(orders) <= NumLockOrders
    /\ tx' = [tx EXCEPT ![t] = [IdleTx EXCEPT !.op = "create_order", !.items = items,
                                             !.used_bonus = used_bonus,
                                             !.stage = "positions",
                                             !.todo =
                                                [i \in 1..Cardinality(DOMAIN items) |->
                                                    PositionRow(Ascending(DOMAIN items)[i])]]]
    /\ UNCHANGED <<quantity, bonus_num, orders, fsm, invoices, pay, adm, claims, co,
                   audit, job, yandex, elapsed, data, http, sched, call>>

\* the transaction takes the next row lock, once no other transaction holds it
tx_lock(t) ==
    /\ tx[t].todo # <<>>
    /\ \A u \in Txs \ {t} : Head(tx[t].todo) \notin tx[u].held
    /\ tx' = [tx EXCEPT ![t].held = @ \cup {Head(tx[t].todo)}, ![t].todo = Tail(@)]
    /\ UNCHANGED <<quantity, bonus_num, orders, fsm, invoices, pay, adm, claims, co,
                   audit, job, yandex, elapsed, data, http, sched, call>>

\* cancel_order with its order row locked: return for an inactive order; else
\* the order_items rows are read (no ORDER BY) and one UPDATE per row follows,
\* then the UPDATE of buyer_info if used_bonus > 0
cancel_order_read(t) ==
    /\ tx[t].stage = "order"
    /\ tx[t].todo = <<>>
    /\ tx' = [tx EXCEPT ![t] =
                 IF orders[tx[t].order].status \notin cancellable_by_cancel_order
                 THEN IdleTx
                 ELSE [@ EXCEPT !.stage = "write",
                                !.todo = [i \in DOMAIN order_items_rows(tx[t].order) |->
                                             PositionRow(order_items_rows(tx[t].order)[i])]
                                         \o (IF orders[tx[t].order].used_bonus > 0
                                             THEN <<BuyerRow(orders[tx[t].order].buyer_id)>>
                                             ELSE <<>>)]]
    /\ UNCHANGED <<quantity, bonus_num, orders, fsm, invoices, pay, adm, claims, co,
                   audit, job, yandex, elapsed, data, http, sched, call>>

\* create_order with its positions locked: return if stock is lacking; else
\* SELECT b.bonus_num ... FOR UPDATE
create_order_check(t) ==
    /\ tx[t].stage = "positions"
    /\ tx[t].todo = <<>>
    /\ tx' = [tx EXCEPT ![t] =
                 IF lack(db, tx[t].items) # {}
                 THEN IdleTx
                 ELSE [@ EXCEPT !.stage = "write", !.todo = <<BuyerRow(1)>>]]
    /\ UNCHANGED <<quantity, bonus_num, orders, fsm, invoices, pay, adm, claims, co,
                   audit, job, yandex, elapsed, data, http, sched, call>>

\* the writes are done and the transaction commits: its locks are released
tx_commit(t) ==
    /\ tx[t].stage = "write"
    /\ tx[t].todo = <<>>
    /\ IF tx[t].op = "cancel_order"
       THEN /\ Apply(cancel_order(db, tx[t].order), tx[t].order, "cancel_order")
            /\ co' = co
       ELSE LET d == create_order(db, 1, tx[t].items, "pickup", tx[t].used_bonus)
            IN /\ quantity' = d.quantity
               /\ bonus_num' = d.bonus_num
               /\ orders' = d.orders
               /\ audit' = Append([x \in DOMAIN audit |-> [audit[x] EXCEPT !.pre = <<>>]],
                                  NewAudit(1, tx[t].items, tx[t].used_bonus))
               /\ co' = Append(co, "done")
    /\ tx' = [tx EXCEPT ![t] = IdleTx]
    /\ UNCHANGED <<fsm, invoices, pay, adm, claims, job, yandex, elapsed, data, http, sched, call>>

\* each of the two transactions waits for a row the other holds
Deadlocked(t, u) ==
    /\ t # u
    /\ tx[t].todo # <<>>
    /\ tx[u].todo # <<>>
    /\ Head(tx[t].todo) \in tx[u].held
    /\ Head(tx[u].todo) \in tx[t].held

\* the database detects the deadlock and rolls one transaction back
deadlock_detected(t) ==
    /\ \E u \in Txs : Deadlocked(t, u)
    /\ tx' = [tx EXCEPT ![t] = IdleTx]
    /\ UNCHANGED <<quantity, bonus_num, orders, fsm, invoices, pay, adm, claims, co,
                   audit, job, yandex, elapsed, data, http, sched, call>>

LockNext ==
    \/ \E t \in Txs, o \in OrderIds : cancel_order_begin(t, o)
    \/ \E t \in Txs, items \in Carts, used_bonus \in {0, Unit} :
          create_order_begin(t, items, used_bonus)
    \/ \E t \in Txs : tx_lock(t)
    \/ \E t \in Txs : cancel_order_read(t)
    \/ \E t \in Txs : create_order_check(t)
    \/ \E t \in Txs : tx_commit(t)
    \/ \E t \in Txs : deadlock_detected(t)

LockSpec == LockInit /\ [][LockNext]_vars

\* --------------------------------------- the conversation that builds an order
\* state.get_data() of a conversation just cleared: no key is set. A key whose
\* value is a number carries a tag beside it: "absent" (no such key), "None"
\* (the key holds None) or "set"
EmptyData ==
    [cart |-> <<>>,
     delivery_way |-> "absent",
     delivery_cost_key |-> "absent",
     delivery_cost |-> 0,
     used_bonus |-> 0,
     total_goods |-> 0,
     bonuses |-> 0,
     shown_bonus |-> 0]

ConvInit ==
    /\ quantity = [p \in Positions |-> MaxQty]
    /\ bonus_num \in [Buyers -> {Unit, MaxBonus * Unit}]
    /\ orders = <<>>
    /\ fsm = [b \in Buyers |-> "none"]
    /\ invoices = {}
    /\ pay = [h \in Handlers |-> IdleSlot]
    /\ adm = IdleAdm(FALSE)
    /\ claims = <<>>
    /\ co = <<>>
    /\ audit = <<>>
    /\ job = IdleJob
    /\ yandex = <<>>
    /\ elapsed = {}
    /\ tx = <<>>
    /\ data = [b \in Buyers |-> EmptyData]
    /\ http = IdleHttp
    /\ sched = IdleSched
    /\ call = IdleCall

\* the conversation of buyer b moves to state with the data d
Converse(b, state, d) ==
    /\ fsm' = [fsm EXCEPT ![b] = state]
    /\ data' = [data EXCEPT ![b] = d]
    /\ UNCHANGED <<quantity, bonus_num, orders, invoices, pay, adm, claims, co, audit,
                   job, yandex, elapsed, tx, http, sched, call>>

\* start_create: state.clear(), cart = {}, the product list is shown
start_create(b) ==
    /\ b \in DOMAIN data
    /\ Converse(b, "choose_products", EmptyData)

\* the dict cart without the key pid
CartPop(cart, pid) == [p \in DOMAIN cart \ {pid} |-> cart[p]]

\* the dict cart with cart[pid] = qty
CartSet(cart, pid, qty) == [p \in DOMAIN cart \cup {pid} |-> IF p = pid THEN qty ELSE cart[p]]

CartActions == {"toggle", "add", "sub"}

\* cart_ops for cart:toggle, cart:add and cart:sub on position pid
cart_ops(b, action, pid) ==
    /\ fsm[b] = "choose_products"
    /\ LET cart == data[b].cart
           qty == IF pid \in DOMAIN cart THEN cart[pid] ELSE 0
           new_cart ==
               CASE action = "toggle" ->
                        IF qty > 0 THEN CartPop(cart, pid) ELSE CartSet(cart, pid, 1)
                 [] action = "add" -> CartSet(cart, pid, Min(qty + 1, quantity[pid]))
                 [] action = "sub" ->
                        IF Max(qty - 1, 0) = 0 THEN CartPop(cart, pid)
                        ELSE CartSet(cart, pid, Max(qty - 1, 0))
       IN Converse(b, "choose_products", [data[b] EXCEPT !.cart = new_cart])

\* cart_ops for cart:done: an empty cart is refused
cart_done(b) ==
    /\ fsm[b] = "choose_products"
    /\ DOMAIN data[b].cart # {}
    /\ Converse(b, "choose_delivery", data[b])

\* back_from_delivery_to_cart
back_from_delivery_to_cart(b) ==
    /\ fsm[b] = "choose_delivery"
    /\ Converse(b, "choose_products", data[b])

\* the data after go_confirm: total_goods and bonuses are read again and the
\* preview is sent with used_bonus = 0
go_confirm_data(b, d) ==
    [d EXCEPT !.total_goods = order_total(d.cart),
              !.bonuses = bonus_num[b],
              !.shown_bonus = 0]

\* handle_delivery_choice: pickup goes to the confirmation at once, delivery asks
\* for the address
handle_delivery_choice(b, delivery_way) ==
    /\ fsm[b] = "choose_delivery"
    /\ IF delivery_way = "pickup"
       THEN Converse(b, "confirm_order",
                     go_confirm_data(b, [data[b] EXCEPT !.delivery_way = delivery_way]))
       ELSE Converse(b, "enter_address", [data[b] EXCEPT !.delivery_way = delivery_way])

\* process_text_address with an address the geocoder finds
process_text_address(b) ==
    /\ fsm[b] = "enter_address"
    /\ Converse(b, "confirm_geoposition", data[b])

\* back_from_geoconfirm_to_delivery_choice
back_from_geoconfirm_to_delivery_choice(b) ==
    /\ fsm[b] = "confirm_geoposition"
    /\ Converse(b, "choose_delivery", data[b])

\* process_geoposition_confirm / process_manual_location, then process_porch and
\* process_floor: they set keys no later step of the order reads
process_geoposition_confirm(b) ==
    /\ fsm[b] = "confirm_geoposition"
    /\ Converse(b, "enter_apartment", data[b])

\* what calculate_price can give: a cost, or None when the quote fails
Quotes == {"None", "set"}

\* process_apartment_and_calculate: state.clear() when there is no quote, else
\* delivery_cost is stored and go_confirm follows
process_apartment_and_calculate(b, quote) ==
    /\ fsm[b] = "enter_apartment"
    /\ IF quote = "None"
       THEN Converse(b, "none", EmptyData)
       ELSE Converse(b, "confirm_order",
                     go_confirm_data(b, [data[b] EXCEPT
                                           !.delivery_cost_key = "set",
                                           !.delivery_cost = DeliveryCost("delivery")]))

\* confirm_bonus: used_bonus is stored; the call of confirm_create_order without
\* has_comment then raises, so the preview on the screen is not edited
confirm_bonus(b, use) ==
    /\ fsm[b] = "confirm_order"
    /\ LET can_use_bonus == Min(data[b].bonuses, data[b].total_goods)
       IN Converse(b, "confirm_order",
                   [data[b] EXCEPT !.used_bonus = IF use THEN can_use_bonus ELSE 0])

\* start_add_comment
start_add_comment(b) ==
    /\ fsm[b] = "confirm_order"
    /\ Converse(b, "enter_comment", data[b])

\* process_comment: the comment is stored and go_confirm follows
process_comment(b) ==
    /\ fsm[b] = "enter_comment"
    /\ Converse(b, "confirm_order", go_confirm_data(b, data[b]))

\* confirm_restart: cart = {} and nothing else of the data is reset
confirm_restart(b) ==
    /\ fsm[b] = "confirm_order"
    /\ Converse(b, "choose_products", [data[b] EXCEPT !.cart = <<>>])

\* back_from_confirm_to_delivery: address = None, delivery_cost = None
back_from_confirm_to_delivery(b) ==
    /\ fsm[b] = "confirm_order"
    /\ Converse(b, "choose_delivery", [data[b] EXCEPT !.delivery_cost_key = "None",
                                                       !.delivery_cost = 0])

\* cb_back_main with the data of the conversation: state.clear()
cb_back_main_clear(b) ==
    /\ fsm[b] # "none"
    /\ Converse(b, "none", EmptyData)

\* the buyer_orders row create_order inserts: delivery_cost is the argument
create_order_with_cost(d, b, items, way, used_bonus, delivery_cost) ==
    LET r == create_order(d, b, items, way, used_bonus)
    IN IF r = d THEN d
       ELSE [r EXCEPT !.orders[Len(r.orders)].delivery_cost = delivery_cost]

\* confirm_ok with its arguments read from the state, up to the return of
\* create_order. With delivery_cost = None the sum of final_amount_to_pay raises
\* TypeError before create_order is called; on an error of create_order
\* state.clear()
confirm_ok_from_state(b) ==
    /\ fsm[b] = "confirm_order"
    /\ Len(orders) < MaxOrders
    /\ data[b].delivery_cost_key # "None"
    /\ LET d == create_order_with_cost(db, b, data[b].cart, data[b].delivery_way,
                                       data[b].used_bonus, data[b].delivery_cost)
       IN /\ quantity' = d.quantity
          /\ bonus_num' = d.bonus_num
          /\ orders' = d.orders
          /\ IF d = db
             THEN /\ fsm' = [fsm EXCEPT ![b] = "none"]
                  /\ data' = [data EXCEPT ![b] = EmptyData]
                  /\ UNCHANGED <<co, audit>>
             ELSE /\ fsm' = fsm
                  /\ data' = data
                  /\ co' = Append(co, "branch")
                  /\ audit' = Append([x \in DOMAIN audit |-> [audit[x] EXCEPT !.pre = <<>>]],
                                      NewAudit(b, data[b].cart, data[b].used_bonus))
    /\ UNCHANGED <<invoices, pay, adm, claims, job, yandex, elapsed, tx, http, sched, call>>

ConvNext ==
    \/ \E b \in Buyers : start_create(b)
    \/ \E b \in Buyers, action \in CartActions, pid \in Positions : cart_ops(b, action, pid)
    \/ \E b \in Buyers : cart_done(b)
    \/ \E b \in Buyers : back_from_delivery_to_cart(b)
    \/ \E b \in Buyers, way \in DeliveryWay : handle_delivery_choice(b, way)
    \/ \E b \in Buyers : process_text_address(b)
    \/ \E b \in Buyers : back_from_geoconfirm_to_delivery_choice(b)
    \/ \E b \in Buyers : process_geoposition_confirm(b)
    \/ \E b \in Buyers, quote \in Quotes : process_apartment_and_calculate(b, quote)
    \/ \E b \in Buyers, use \in BOOLEAN : confirm_bonus(b, use)
    \/ \E b \in Buyers : start_add_comment(b)
    \/ \E b \in Buyers : process_comment(b)
    \/ \E b \in Buyers : confirm_restart(b)
    \/ \E b \in Buyers : back_from_confirm_to_delivery(b)
    \/ \E b \in Buyers : cb_back_main_clear(b)
    \/ \E b \in Buyers : confirm_ok_from_state(b)

ConvSpec == ConvInit /\ [][ConvNext]_vars

\* ------------------------------------------------- the delivery client calls
\* the methods of YandexDeliveryClient and the key each looks for in the body
GatewayMethods ==
    {"calculate_price", "get_claim_info", "create_claim", "accept_claim",
     "get_courier_phone", "get_points_eta", "get_tracking_links",
     "get_cancellation_info", "cancel_claim"}

\* the statuses an answer can carry, on both sides of 200 <= status < 300
HttpStatuses == {199, 200, 299, 300, 500}

\* what the body of an answer can be: not JSON at all, or a JSON value of each
\* kind, with or without the key the method reads (for an array the key as an
\* element, for a string the key as a part of it)
Bodies ==
    {"undecodable", "null", "empty_object", "object_without_key", "object_key_null",
     "object_key_value", "empty_array", "array_with_key", "string_with_key", "number"}

\* the exchanges with the provider: the request raises (timeout, connection
\* error), or an answer with a status and a body comes back
Responses ==
    {[transport |-> "raises", status |-> 500, body |-> "undecodable"]}
      \cup [transport : {"answers"}, status : HttpStatuses, body : Bodies]

\* _make_request: the decoded body for a 2xx answer, None for any other status,
\* for a body response.json() cannot decode and for any exception
make_request(response) ==
    IF response.transport = "raises" \/ response.body = "undecodable" THEN "None"
    ELSE IF 200 <= response.status /\ response.status < 300 THEN response.body
    ELSE "None"

\* bool(response_data)
Truthy(response_data) == response_data \notin {"None", "null", "empty_object", "empty_array"}

\* `key in response_data` is true
HasKey(response_data) ==
    response_data \in {"object_key_null", "object_key_value", "array_with_key",
                       "string_with_key"}

IsObject(response_data) ==
    response_data \in {"empty_object", "object_without_key", "object_key_null",
                       "object_key_value"}

\* what the method gives its caller for the response_data of _make_request:
\* "None", "False", "success" (a value the caller takes for the provider's
\* answer) or "raises" (an exception leaves the method)
method_result(method, response_data) ==
    IF ~Truthy(response_data)
    THEN (IF method = "cancel_claim" THEN "False" ELSE "None")
    ELSE IF response_data = "number" THEN "raises"
    ELSE IF ~HasKey(response_data)
    THEN (IF method = "cancel_claim" THEN "False" ELSE "None")
    ELSE CASE method = "calculate_price" ->
                  IF response_data = "object_key_value" THEN "success" ELSE "raises"
           [] method = "create_claim" ->
                  IF ~IsObject(response_data) THEN "raises"
                  ELSE IF response_data = "object_key_null" THEN "None" ELSE "success"
           [] method \in {"get_points_eta", "get_tracking_links"} -> "success"
           [] OTHER -> IF IsObject(response_data) THEN "success" ELSE "raises"

GatewayInit ==
    /\ quantity = [p \in Positions |-> MaxQty]
    /\ bonus_num = [b \in Buyers |-> Unit]
    /\ orders = <<>>
    /\ fsm = [b \in Buyers |-> "none"]
    /\ invoices = {}
    /\ pay = [h \in Handlers |-> IdleSlot]
    /\ adm = IdleAdm(FALSE)
    /\ claims = <<>>
    /\ co = <<>>
    /\ audit = <<>>
    /\ job = IdleJob
    /\ yandex = <<>>
    /\ elapsed = {}
    /\ tx = <<>>
    /\ data = <<>>
    /\ http = IdleHttp
    /\ sched = IdleSched
    /\ call = IdleCall

\* a method of the client is called and sends its request
gateway_call(method) ==
    /\ http.pc = "idle"
    /\ http' = [IdleHttp EXCEPT !.pc = "sent", !.method = method]
    /\ UNCHANGED <<quantity, bonus_num, orders, fsm, invoices, pay, adm, claims, co, audit,
                   job, yandex, elapsed, tx, data, sched, call>>

\* the exchange with the provider ends
gateway_response(response) ==
    /\ http.pc = "sent"
    /\ http' = [http EXCEPT !.pc = "answered", !.response = response]
    /\ UNCHANGED <<quantity, bonus_num, orders, fsm, invoices, pay, adm, claims, co, audit,
                   job, yandex, elapsed, tx, data, sched, call>>

\* _make_request and the rest of the method run
gateway_return ==
    /\ http.pc = "answered"
    /\ http' = [http EXCEPT !.pc = "returned",
                            !.result = method_result(http.method, make_request(http.response))]
    /\ UNCHANGED <<quantity, bonus_num, orders, fsm, invoices, pay, adm, claims, co, audit,
                   job, yandex, elapsed, tx, data, sched, call>>

\* the caller has the result
gateway_done ==
    /\ http.pc = "returned"
    /\ http' = IdleHttp
    /\ UNCHANGED <<quantity, bonus_num, orders, fsm, invoices, pay, adm, claims, co, audit,
                   job, yandex, elapsed, tx, data, sched, call>>

GatewayNext ==
    \/ \E method \in GatewayMethods : gateway_call(method)
    \/ \E response \in Responses : gateway_response(response)
    \/ gateway_return
    \/ gateway_done

GatewaySpec == GatewayInit /\ [][GatewayNext]_vars

\* ----------------------------------------------- the scheduler and its jobs
\* minutes of the interval trigger main() gives each job
IntervalMinutes(j) ==
    CASE j = "cancel_old_pending_orders" -> 5
      [] j = "check_delivery_statuses" -> 10
      [] j = "cleanup_stuck_orders" -> 30

\* the clock runs over one period of the three triggers
SchedulePeriod == IntervalMinutes("cleanup_stuck_orders")

\* add_job is called without max_instances: the scheduler's default of one
\* running instance per job applies
max_instances == 1

\* a tick that submits the job whatever is running
may_start_always(j) == TRUE

\* the scheduler submits a due job only below max_instances running instances
may_start(j) == sched.running[j] < max_instances

SchedInit ==
    /\ quantity = [p \in Positions |-> MaxQty]
    /\ bonus_num = [b \in Buyers |-> Unit]
    /\ orders = <<>>
    /\ fsm = [b \in Buyers |-> "none"]
    /\ invoices = {}
    /\ pay = [h \in Handlers |-> IdleSlot]
    /\ adm = IdleAdm(FALSE)
    /\ claims = <<>>
    /\ co = <<>>
    /\ audit = <<>>
    /\ job = IdleJob
    /\ yandex = <<>>
    /\ elapsed = {}
    /\ tx = <<>>
    /\ data = <<>>
    /\ http = IdleHttp
    /\ sched = IdleSched
    /\ call = IdleCall

\* a minute passes once the scheduler has dealt with the jobs due; the jobs
\* whose interval ends now become due
minute_passes ==
    /\ sched.due = {}
    /\ LET now == (sched.clock + 1) % SchedulePeriod
       IN sched' = [sched EXCEPT !.clock = now,
                                 !.due = {j \in JobTypes : now % IntervalMinutes(j) = 0},
                                 !.skipped = {}]
    /\ UNCHANGED <<quantity, bonus_num, orders, fsm, invoices, pay, adm, claims, co, audit,
                   job, yandex, elapsed, tx, data, http, call>>

\* the tick of job j: a run starts, or the tick is skipped because the job has
\* its maximum of running instances
job_tick(j) ==
    /\ j \in sched.due
    /\ sched' = IF may_start(j)
                THEN [sched EXCEPT !.due = @ \ {j}, !.running[j] = @ + 1]
                ELSE [sched EXCEPT !.due = @ \ {j}, !.skipped = @ \cup {j}]
    /\ UNCHANGED <<quantity, bonus_num, orders, fsm, invoices, pay, adm, claims, co, audit,
                   job, yandex, elapsed, tx, data, http, call>>

\* a run of job j ends, however long it took
job_ends(j) ==
    /\ sched.running[j] > 0
    /\ sched' = [sched EXCEPT !.running[j] = @ - 1]
    /\ UNCHANGED <<quantity, bonus_num, orders, fsm, invoices, pay, adm, claims, co, audit,
                   job, yandex, elapsed, tx, data, http, call>>

SchedNext ==
    \/ minute_passes
    \/ \E j \in JobTypes : job_tick(j)
    \/ \E j \in JobTypes : job_ends(j)

SchedSpec == SchedInit /\ [][SchedNext]_vars

\* ------------------------------------- callbacks that carry an order id
NumCallers == 2

\* the users that send callback queries
Callers == 1..NumCallers

\* an order of buyer b: waiting for payment with its invoice sent, or paid
OwnedOrder(b, status, way) ==
    [buyer_id |-> b,
     status |-> status,
     delivery_way |-> way,
     used_bonus |-> Unit,
     delivery_cost |-> DeliveryCost(way),
     items |-> (1 :> 1),
     yandex_claim_id |-> NULL,
     finished_at |-> FALSE,
     payment_date |-> status # S_PENDING_PAYMENT,
     payment_info |-> status # S_PENDING_PAYMENT]

\* every caller has one order, the order with the caller's number
OwnerInit ==
    /\ quantity = [p \in Positions |-> 0]
    /\ bonus_num = [b \in Callers |-> 0]
    /\ \E st \in [Callers -> {S_PENDING_PAYMENT, S_PROCESSING, S_READY}],
          way \in [Callers -> DeliveryWay] :
          /\ orders = [o \in Callers |-> OwnedOrder(o, st[o], way[o])]
          /\ invoices = {o \in Callers : st[o] = S_PENDING_PAYMENT}
          /\ fsm = [b \in Callers |->
                       IF st[b] = S_PENDING_PAYMENT THEN "waiting_payment" ELSE "none"]
    /\ pay = [h \in Handlers |-> IdleSlot]
    /\ adm = IdleAdm(FALSE)
    /\ claims = <<>>
    /\ co = [o \in Callers |-> "done"]
    /\ audit = [o \in Callers |->
                  [requested |-> Unit, total |-> price[1], cur_bonus |-> Unit,
                   debited |-> Unit, pre |-> <<>>, released |-> 0,
                   released_by |-> "none", provider |-> "none",
                   confirmed |-> FALSE, paid |-> 0]]
    /\ job = IdleJob
    /\ yandex = <<>>
    /\ elapsed = {}
    /\ tx = <<>>
    /\ data = <<>>
    /\ http = IdleHttp
    /\ sched = IdleSched
    /\ call = IdleCall

CallbackKinds == {"cancel-yes", "cancel_invoice"}

\* a callback query of user from_user arrives: its data holds the kind and an
\* order id, which the sender's client chooses
callback_query(from_user, kind, order_id) ==
    /\ call.pc # "handling"
    /\ call' = [pc |-> "handling", from_user |-> from_user, kind |-> kind,
                order_id |-> order_id]
    /\ UNCHANGED <<quantity, bonus_num, orders, fsm, invoices, pay, adm, claims, co, audit,
                   job, yandex, elapsed, tx, data, http, sched>>

\* order_cancel_yes for the callback taken up: get_order_by_id(order_id), then
\* the cancellation of the order found (none of these orders has a claim)
order_cancel_yes_handler ==
    /\ call.pc = "handling"
    /\ call.kind = "cancel-yes"
    /\ LET e == order_cancel_yes_effect(call.order_id, "none", "none", FALSE)
       IN ApplyVia(e.d, call.order_id, e.provider)
    /\ call' = [call EXCEPT !.pc = "done"]
    /\ UNCHANGED <<fsm, invoices, pay, adm, claims, co, job, yandex, elapsed, tx, data, http,
                   sched>>

\* cancel_payment_invoice for the callback taken up: cancel_order(order_id) and
\* state.clear() of the sender
cancel_payment_invoice_handler ==
    /\ call.pc = "handling"
    /\ call.kind = "cancel_invoice"
    /\ ApplyVia(cancel_order(db, call.order_id), call.order_id, "no_claim")
    /\ fsm' = [fsm EXCEPT ![call.from_user] = "none"]
    /\ call' = [call EXCEPT !.pc = "done"]
    /\ UNCHANGED <<invoices, pay, adm, claims, co, job, yandex, elapsed, tx, data, http, sched>>

OwnerNext ==
    \/ \E from_user \in Callers, kind \in CallbackKinds, order_id \in Callers :
          callback_query(from_user, kind, order_id)
    \/ order_cancel_yes_handler
    \/ cancel_payment_invoice_handler

OwnerSpec == OwnerInit /\ [][OwnerNext]_vars

\* ------------------------------------------------------------- properties
\* the transition table of the specification, as (from, to) pairs
TransitionTable ==
    {<<S_PENDING_PAYMENT, S_PROCESSING>>, <<S_PENDING_PAYMENT, S_CANCELLED>>,
     <<S_PROCESSING, S_READY>>, <<S_PROCESSING, S_TRANSFERRING>>,
     <<S_READY, S_FINISHED>>, <<S_TRANSFERRING, S_FINISHED>>,
     <<S_PROCESSING, S_CANCELLED>>, <<S_READY, S_CANCELLED>>}

\* C1: in every reachable state every product_position.quantity is >= 0 and
\* every buyer's bonus_num is >= 0.
C1_LedgerNonNegative ==
    /\ \A p \in Positions : quantity[p] >= 0
    /\ \A b \in Buyers : bonus_num[b] >= 0

\* an order holds the whole stock of a position and the whole balance of its buyer
C1_Witness ==
    \E o \in OrderIds :
        /\ orders[o].status \in ACTIVE_STATUSES
        /\ \E p \in DOMAIN orders[o].items : quantity[p] = 0
        /\ audit[o].debited > 0
        /\ bonus_num[orders[o].buyer_id] = 0

\* C2: an order cancelled by cancel_order, with no other write to the ledger
\* since just before its create_order, leaves every quantity and the buyer's
\* bonus_num as they were before create_order.
C2_RoundTrip ==
    \A o \in OrderIds :
        (/\ orders[o].status = S_CANCELLED
         /\ audit[o].released_by = "cancel_order"
         /\ audit[o].pre # <<>>)
        => /\ quantity = audit[o].pre[1].quantity
           /\ bonus_num = audit[o].pre[1].bonus_num

\* C3: the used_bonus recorded on an order is at most the requested points, the
\* goods total and the buyer's balance, all as of its create_order.
C3_UsedBonusClamped ==
    \A o \in OrderIds :
        orders[o].used_bonus
            <= Min(Min(audit[o].requested, audit[o].total), audit[o].cur_bonus)

\* C4: in every reachable state and for every order, cancel_order applied twice
\* gives the same status, quantities and balances as cancel_order applied once.
C4_CancelIdempotent ==
    \A o \in OrderIds :
        cancel_order(cancel_order(db, o), o) = cancel_order(db, o)

\* cancel_order has released an order that had stock and points reserved: the
\* call that follows is the second one
C4_Witness ==
    \E o \in OrderIds :
        /\ orders[o].status = S_CANCELLED
        /\ audit[o].released_by = "cancel_order"
        /\ orders[o].used_bonus > 0

\* C5: for every order and every target status, when (current status, target)
\* is no row of the transition table, admin_set_status returns False at its
\* check, and a call already past the check returns False from its UPDATE and
\* writes nothing (neither status nor finished_at).
C5_AdminRejects ==
    \A o \in OrderIds, to_status \in AdminTargets :
        <<orders[o].status, to_status>> \notin TransitionTable
        => /\ ~admin_set_status_passes(o, to_status)
           /\ admin_set_status_sql(o, to_status).ret = FALSE
           /\ admin_set_status_sql(o, to_status).orders = orders

\* an admin_set_status call stands before its UPDATE and the order has meanwhile
\* moved to a status from which the target is no row of the table
C5_Witness ==
    /\ adm.pc = "read"
    /\ <<orders[adm.order].status, adm.to>> \notin TransitionTable

\* C6: every change of an order's status is a (from, to) row of the transition
\* table.
C6_TransitionsInTable ==
    [][\A o \in OrderIds :
          orders'[o].status # orders[o].status
          => <<orders[o].status, orders'[o].status>> \in TransitionTable]_vars

\* C7: an order that is finished or cancelled keeps its status in every step,
\* and admin_cancel leaves it alone as well.
C7_TerminalStays ==
    [][\A o \in OrderIds :
          orders[o].status \in {S_FINISHED, S_CANCELLED}
          => /\ orders'[o].status = orders[o].status
             /\ admin_cancel(o) = orders]_vars

\* an order is finished while a payment handler and the delivery job still work on it
C7_Witness ==
    \E o \in OrderIds, h \in Handlers :
        /\ orders[o].status = S_FINISHED
        /\ pay[h].pc # "idle"
        /\ pay[h].order = o
        /\ orders[o].yandex_claim_id # NULL

C9_ConfirmationMarksPaid ==
    \A o \in OrderIds :
        audit[o].confirmed => audit[o].paid > 0 /\ orders[o].payment_date

\* C10: an order goes from pending_payment to processing at most once and at
\* most one claim is created at the provider for it.
C10_ConfirmationOnce ==
    \A o \in OrderIds :
        /\ audit[o].paid <= 1
        /\ Cardinality(ClaimsOf(o)) <= 1

\* C11: an order that went from pending_payment to processing without a
\* payment step (paid by bonus) has goods total + delivery cost - the points
\* debited for it = 0.
C11_PaidByBonusIsCovered ==
    \A o \in OrderIds :
        (orders[o].payment_date /\ ~orders[o].payment_info)
        => audit[o].total + orders[o].delivery_cost - audit[o].debited = 0

\* C12: an order that had a claim id when the buyer or an admin cancelled it
\* became cancelled only after the provider reported a final status of the
\* claim or cancelled the claim; and whenever the provider's cancel call fails
\* for a claim that is not final, the cancellation writes nothing.
C12_ProviderBeforeLocalCancel ==
    \A o \in OrderIds :
        /\ (orders[o].status = S_CANCELLED /\ audit[o].provider \notin {"none", "no_claim"})
           => audit[o].provider \in {"terminal", "cancel_ok"}
        /\ orders[o].yandex_claim_id # NULL
           => \A claim_info \in ClaimInfos \ yandex_final_statuses, cancel_info \in CancelInfos :
                 /\ order_cancel_yes_effect(o, claim_info, cancel_info, FALSE).d = db
                 /\ adm_order_cancel_yes_effect(o, claim_info, cancel_info, FALSE).d = db

C14_AcceptFailureRecordsNothing ==
    [][/\ \A o \in OrderIds :
             orders[o].yandex_claim_id # NULL
             => /\ claims[orders[o].yandex_claim_id].accepted
                /\ claims[orders[o].yandex_claim_id].order = o
       /\ \A h \in Handlers :
             (pay[h].pc = "accept" /\ pay'[h].pc = "clear"
              /\ ~claims'[pay[h].claim].accepted)
             => orders' = orders
       /\ \A o \in OrderIds :
             (co[o] = "accept" /\ co'[o] = "done" /\ ~claims'[ClaimOf(o)].accepted)
             => orders' = orders]_vars

\* the claims of a delivery order were created and none was accepted, every
\* handler has returned, and the order is in processing without a claim id
C14_Witness ==
    \E o \in OrderIds :
        /\ orders[o].status = S_PROCESSING
        /\ orders[o].yandex_claim_id = NULL
        /\ ClaimsOf(o) # {}
        /\ \A c \in ClaimsOf(o) : ~claims[c].accepted
        /\ co[o] = "done"
        /\ \A h \in Handlers : pay[h].pc = "idle"

\* C15: the step in which the provider accepts the claim of a delivery order
\* that is in processing leaves the order in transferring.
C15_AcceptedBecomesTransferring ==
    [][\A c \in DOMAIN claims :
          (/\ ~claims[c].accepted
           /\ claims'[c].accepted
           /\ orders[claims[c].order].delivery_way = "delivery"
           /\ orders[claims[c].order].status = S_PROCESSING)
          => orders'[claims[c].order].status = S_TRANSFERRING]_vars

\* the carts a caller can pass to create_order: any dict, the empty one and
\* ones with an unknown position id or more than the stock included
AnyCarts ==
    UNION {[S -> 1..(MaxQty + 1)] : S \in SUBSET (1..(NumPositions + 1))}

\* the users a caller can pass to create_order: the buyers and an unknown one
AnyUsers == Buyers \cup {0}

\* C16: whenever create_order is called with an empty cart, an unknown user,
\* an unknown position id or a quantity above the stock, the order rows, every
\* stock quantity and every bonus balance are unchanged.
C16_ErrorChangesNothing ==
    \A b \in AnyUsers, items \in AnyCarts, used_bonus \in RequestedBonus :
        (\/ DOMAIN items = {}
         \/ b \notin Buyers
         \/ ~(DOMAIN items \subseteq Positions)
         \/ \E p \in DOMAIN items : items[p] > quantity[p])
        => /\ create_order(db, b, items, "pickup", used_bonus) = db
           /\ create_order(db, b, items, "delivery", used_bonus) = db

\* the buyer stands on the confirmation screen with a cart the stock no
\* longer covers: confirm_ok gets the error of create_order
C16_Witness ==
    \E b \in Buyers, items \in Carts :
        /\ fsm[b] = "confirm_order"
        /\ Len(orders) < MaxOrders
        /\ lack(db, items) # {}

\* C17: create_order with a known buyer and a cart the stock covers takes
\* exactly the ordered quantity from each ordered position, leaves the other
\* positions and the earlier orders as they are, and adds exactly one order,
\* in pending_payment, with the cart's entries as its items.
C17_SuccessReservesExactly ==
    \A b \in Buyers, items \in Carts, way \in DeliveryWay, used_bonus \in RequestedBonus :
        (\A p \in DOMAIN items : items[p] <= quantity[p])
        => LET d == create_order(db, b, items, way, used_bonus)
           IN /\ \A p \in Positions :
                    d.quantity[p] =
                        quantity[p] - (IF p \in DOMAIN items THEN items[p] ELSE 0)
              /\ Len(d.orders) = Len(orders) + 1
              /\ \A o \in OrderIds : d.orders[o] = orders[o]
              /\ d.orders[Len(orders) + 1].status = S_PENDING_PAYMENT
              /\ d.orders[Len(orders) + 1].buyer_id = b
              /\ DOMAIN d.orders[Len(orders) + 1].items = DOMAIN items
              /\ \A p \in DOMAIN items : d.orders[Len(orders) + 1].items[p] = items[p]

\* confirm_ok has just created an order: it is in pending_payment and the
\* stock is what it was before the call less the order's items
C17_Witness ==
    \E o \in OrderIds :
        /\ orders[o].status = S_PENDING_PAYMENT
        /\ audit[o].pre # <<>>
        /\ co[o] = "branch"
        /\ \A p \in DOMAIN orders[o].items :
              quantity[p] = audit[o].pre[1].quantity[p] - orders[o].items[p]

\* C18: an order whose checkout found 0 < final_amount_to_pay <
\* MIN_PAYMENT_AMOUNT ends cancelled with no invoice sent, and, with no other
\* write to the ledger since just before its create_order, every quantity and
\* the buyer's bonus_num are what they were before the checkout.
C18_BelowMinimumIsUndone ==
    \A o \in OrderIds :
        (/\ co[o] = "done"
         /\ 0 < final_amount_to_pay(o)
         /\ final_amount_to_pay(o) < MIN_PAYMENT_AMOUNT
         /\ audit[o].pre # <<>>)
        => /\ orders[o].status = S_CANCELLED
           /\ o \notin invoices
           /\ quantity = audit[o].pre[1].quantity
           /\ bonus_num = audit[o].pre[1].bonus_num

\* C19: in every reachable state no order with delivery_way "delivery" has
\* status ready and no order with delivery_way "pickup" has status
\* transferring, whatever admin_set_status calls were made.
C19_StatusFitsDeliveryWay ==
    \A o \in OrderIds :
        /\ ~(orders[o].delivery_way = "delivery" /\ orders[o].status = S_READY)
        /\ ~(orders[o].delivery_way = "pickup" /\ orders[o].status = S_TRANSFERRING)

\* C20: for every order in an active status with a claim id and every final
\* status the provider reports for the claim, the buyer's and the admin's
\* cancellation leave the order cancelled whatever the provider would answer
\* about cancellation eligibility and without the provider's cancel call.
C20_TerminalAtProviderCancelsLocally ==
    \A o \in OrderIds :
        (orders[o].status \in ACTIVE_STATUSES /\ orders[o].yandex_claim_id # NULL)
        => \A claim_info \in yandex_final_statuses, cancel_info \in CancelInfos,
              cancel_ok \in BOOLEAN :
              LET buyer == order_cancel_yes_effect(o, claim_info, cancel_info, cancel_ok)
                  admin == adm_order_cancel_yes_effect(o, claim_info, cancel_info, cancel_ok)
              IN /\ buyer.d.orders[o].status = S_CANCELLED
                 /\ buyer.provider = "terminal"
                 /\ admin.d.orders[o].status = S_CANCELLED
                 /\ admin.provider = "terminal"

\* provider statuses that are in no entry of yandex_to_local_map
OtherYandexStatuses == {"new", "estimating", "performer_lookup", "pickuped", "other"}

\* C21: for every order in an active status, sync_order_status_from_yandex
\* sets status finished for delivered_finish and returned_finish, sets status
\* cancelled for failed, cancelled, cancelled_with_payment and
\* cancelled_by_taxi, returning True, and for every other provider status
\* leaves the orders as they are and returns False.
C21_SyncMapsFinalStatuses ==
    \A o \in OrderIds :
        orders[o].status \in ACTIVE_STATUSES
        => /\ \A ys \in {"delivered_finish", "returned_finish"} :
                 /\ sync_order_status_from_yandex(o, ys)[o].status = S_FINISHED
                 /\ sync_order_status_from_yandex_ret(o, ys)
           /\ \A ys \in {"failed", "cancelled", "cancelled_with_payment", "cancelled_by_taxi"} :
                 /\ sync_order_status_from_yandex(o, ys)[o].status = S_CANCELLED
                 /\ sync_order_status_from_yandex_ret(o, ys)
           /\ \A ys \in OtherYandexStatuses :
                 /\ sync_order_status_from_yandex(o, ys) = orders
                 /\ ~sync_order_status_from_yandex_ret(o, ys)

\* the delivery job finds an order handed to the courier, with the claim the
\* provider accepted for it: its status is synchronised next
C21_Witness ==
    \E o \in get_active_yandex_deliveries :
        /\ orders[o].status = S_TRANSFERRING
        /\ orders[o].yandex_claim_id # NULL
        /\ claims[orders[o].yandex_claim_id].accepted

\* C22: when a run of check_delivery_statuses has ended, every order that came
\* in its batch after an order whose claim lookup gave nothing or raised has
\* its claim looked up as well.
C22_LookupFailureDoesNotStopRun ==
    job.pc = "done"
    => \A i, j \in DOMAIN job.batch :
          (/\ i < j
           /\ job.batch[i].id \in job.failed
           /\ job.batch[j].yandex_claim_id # NULL)
          => job.batch[j].id \in job.asked

\* C23: an order that is in pending_payment when its timeout has elapsed
\* leaves pending_payment, and the step in which the expiry job releases an
\* order leaves it cancelled with its items back in stock and its used_bonus
\* back on the buyer's balance.
C23_StalePendingExpires ==
    /\ \A o \in 1..NumTimerOrders :
          (orders[o].status = S_PENDING_PAYMENT /\ <<o, S_PENDING_PAYMENT>> \in elapsed)
          ~> (orders[o].status # S_PENDING_PAYMENT)
    /\ [][\A o \in 1..NumTimerOrders :
             (audit[o].released_by # "expiry" /\ audit'[o].released_by = "expiry")
             => /\ orders[o].status = S_PENDING_PAYMENT
                /\ <<o, S_PENDING_PAYMENT>> \in elapsed
                /\ orders'[o].status = S_CANCELLED
                /\ \A p \in Positions :
                      quantity'[p] = quantity[p] + orders[o].items[p]
                /\ bonus_num'[orders[o].buyer_id] =
                      bonus_num[orders[o].buyer_id] + orders[o].used_bonus]_vars

\* the expiry job has cancelled an order that had points reserved
C23_Witness ==
    \E o \in OrderIds :
        /\ audit[o].released_by = "expiry"
        /\ <<o, S_PENDING_PAYMENT>> \in elapsed
        /\ orders[o].status = S_CANCELLED
        /\ orders[o].used_bonus > 0

\* a delivery order in processing with no claim id
Stuck(o) ==
    /\ orders[o].status = S_PROCESSING
    /\ orders[o].delivery_way = "delivery"
    /\ orders[o].yandex_claim_id = NULL

\* C24: a delivery order that is in processing with no claim id when the grace
\* period has elapsed does not stay so, and the step in which the
\* stuck-processing cleanup releases an order leaves it cancelled with its
\* items back in stock and its used_bonus back on the buyer's balance.
C24_StuckProcessingIsCleaned ==
    /\ \A o \in 1..NumTimerOrders :
          (Stuck(o) /\ <<o, S_PROCESSING>> \in elapsed) ~> ~Stuck(o)
    /\ [][\A o \in 1..NumTimerOrders :
             (audit[o].released_by # "cleanup" /\ audit'[o].released_by = "cleanup")
             => /\ Stuck(o)
                /\ <<o, S_PROCESSING>> \in elapsed
                /\ orders'[o].status = S_CANCELLED
                /\ \A p \in Positions :
                      quantity'[p] = quantity[p] + orders[o].items[p]
                /\ bonus_num'[orders[o].buyer_id] =
                      bonus_num[orders[o].buyer_id] + orders[o].used_bonus]_vars

\* the cleanup has cancelled a paid delivery order whose claim was created at
\* the provider and never accepted
C24_Witness ==
    \E o \in OrderIds :
        /\ audit[o].released_by = "cleanup"
        /\ orders[o].status = S_CANCELLED
        /\ orders[o].payment_info
        /\ ClaimsOf(o) # {}
        /\ orders[o].used_bonus > 0

\* C25: a step of a reconciliation job (the expiry, the delivery status job,
\* the stuck-processing cleanup) that cancels a delivery order which is in
\* processing without a claim id is taken only when the grace period of the
\* order has elapsed.
C25_NoJobCancelsBeforeGrace ==
    [][\A o \in 1..NumTimerOrders :
          (/\ Stuck(o)
           /\ orders'[o].status = S_CANCELLED
           /\ \/ job' # job
              \/ audit'[o].released_by \in {"expiry", "cleanup"})
          => <<o, S_PROCESSING>> \in elapsed]_vars

\* a run of the delivery status job has ended while the claim of a paid
\* delivery order is being created and the grace period has not elapsed
C25_Witness ==
    \E o \in OrderIds, h \in Handlers :
        /\ Stuck(o)
        /\ <<o, S_PROCESSING>> \notin elapsed
        /\ pay[h].order = o
        /\ pay[h].pc \in {"create", "accept"}
        /\ job.pc = "done"

\* C26: an order with a claim id whose claim is in a final status at the
\* provider (which the provider never leaves) reaches finished or cancelled.
C26_FinalAtProviderReachesLocal ==
    \A o \in 1..NumJobOrders :
        (orders[o].yandex_claim_id # NULL
         /\ yandex[orders[o].yandex_claim_id] \in yandex_final_statuses)
        ~> (orders[o].status \in FINISHED_STATUSES)

\* a run of the job has failed to look up the claim of an order and the claim
\* is final at the provider; a later run has brought another order to its end
C26_Witness ==
    \E o, x \in OrderIds :
        /\ o # x
        /\ orders[o].yandex_claim_id # NULL
        /\ yandex[orders[o].yandex_claim_id] \in yandex_final_statuses
        /\ orders[o].status \in ACTIVE_STATUSES
        /\ o \in job.failed
        /\ orders[x].status = S_FINISHED

\* C27: in every reachable state every order whose status is finished or
\* cancelled has finished_at set (so the step that set the status set it too).
C27_TerminalHasFinishedAt ==
    \A o \in OrderIds :
        orders[o].status \in FINISHED_STATUSES => orders[o].finished_at

\* update_price: the catalog prices after the admin sets the price of a position
update_price(prices, position_id, new_price) ==
    [prices EXCEPT ![position_id] = new_price]

\* order_total_sum_by_order_id: SUM(pp.price * oi.qty) over the order's items
\* joined with the catalog
order_total_sum_by_order_id(prices, o) ==
    SumOver(DOMAIN orders[o].items,
            [p \in DOMAIN orders[o].items |-> prices[p] * orders[o].items[p]])

\* data["total"] of admin_get_order: sum(price * qty) over the same join
admin_get_order_total(prices, o) ==
    SumOver(DOMAIN orders[o].items,
            [p \in DOMAIN orders[o].items |-> prices[p] * orders[o].items[p]])

\* prices an admin can set
NewPrices == {k * Unit : k \in 1..(NumPositions + 1)}

\* C28: for every order, after update_price of any position to any price,
\* order_total_sum_by_order_id and the total of admin_get_order are the goods
\* total the order had at its creation.
C28_TotalKeepsCreationPrices ==
    \A o \in OrderIds, p \in Positions, new_price \in NewPrices :
        /\ order_total_sum_by_order_id(update_price(price, p, new_price), o) = audit[o].total
        /\ admin_get_order_total(update_price(price, p, new_price), o) = audit[o].total

\* C29: concurrent create_order and cancel_order transactions never deadlock:
\* in no reachable state do two transactions each wait for a row lock the
\* other holds.
C29_NoDeadlock ==
    \A t, u \in Txs : ~Deadlocked(t, u)

C31_PickupHasNoDeliveryCost ==
    \A o \in OrderIds :
        orders[o].delivery_way = "pickup"
        => /\ orders[o].delivery_cost = 0
           /\ final_amount_to_pay(o) = audit[o].total - audit[o].requested

\* the exchange failed: the request raised, the status is not 2xx, the body
\* cannot be decoded, or the decoded body is not an object holding the
\* method's key with a value
FailedExchange(response) ==
    \/ response.transport = "raises"
    \/ ~(200 <= response.status /\ response.status < 300)
    \/ response.body # "object_key_value"

\* C32: a call of the delivery client whose exchange failed (the request raised,
\* a non-2xx status, an undecodable or malformed body) gives its caller None or
\* False.
C32_FailedExchangeGivesFailure ==
    (http.pc = "returned" /\ FailedExchange(http.response))
    => http.result \in {"None", "False"}

\* C33: of each job type at most one run is in progress at any time: a tick
\* that comes while the previous run of the same job is still going starts
\* no second run.
C33_NoOverlappingRuns ==
    \A j \in JobTypes : sched.running[j] <= 1

\* a tick of a job came while its previous run was still in progress and was
\* skipped
C33_Witness ==
    \E j \in JobTypes : j \in sched.skipped /\ sched.running[j] = 1

\* the quantity of position p the orders not in status cancelled hold
HeldQuantity(p) ==
    SumOver({o \in OrderIds : orders[o].status # S_CANCELLED /\ p \in DOMAIN orders[o].items},
            [o \in OrderIds |-> IF p \in DOMAIN orders[o].items THEN orders[o].items[p] ELSE 0])

\* C34: with no catalog edit since an order was created, for each position the
\* current quantity plus the quantities held by the orders not in status
\* cancelled equals the quantity before the order was created: whatever path
\* cancelled an order returned its stock.
C34_CancelledReturnsStock ==
    \A o \in OrderIds :
        audit[o].pre # <<>>
        => \A p \in Positions :
              quantity[p] + HeldQuantity(p) = audit[o].pre[1].quantity[p]

\* C35: a claim is created at the provider, a claim is accepted, and a claim id
\* is saved on an order, only in a step that starts with the order in status
\* processing.
C35_ClaimOnlyWhileProcessing ==
    [][/\ Len(claims') > Len(claims)
          => orders[claims'[Len(claims')].order].status = S_PROCESSING
       /\ \A c \in DOMAIN claims :
             (~claims[c].accepted /\ claims'[c].accepted)
             => orders[claims[c].order].status = S_PROCESSING
       /\ \A o \in OrderIds :
             (orders[o].yandex_claim_id = NULL /\ orders'[o].yandex_claim_id # NULL)
             => orders[o].status = S_PROCESSING]_vars

\* C36: a cancel-yes or cancel_invoice callback changes the status of an order,
\* the stock or the points only when the order it names belongs to the user who
\* sent the callback.
C36_OnlyOwnerCancels ==
    [][(/\ call.pc = "handling"
        /\ \/ orders' # orders
           \/ quantity' # quantity
           \/ bonus_num' # bonus_num)
       => orders[call.order_id].buyer_id = call.from_user]_vars

\* C37: when confirm:ok creates an order, the used_bonus it reads from the
\* state is at most the buyer's balance and the goods total of the cart, and
\* is the bonus amount of the preview last shown.
C37_UsedBonusIsWhatWasShown ==
    [][\A b \in DOMAIN data :
          (/\ Len(orders') > Len(orders)
           /\ orders'[Len(orders')].buyer_id = b)
          => /\ data[b].used_bonus <= Min(bonus_num[b], order_total(data[b].cart))
             /\ data[b].used_bonus = data[b].shown_bonus]_vars

\* the provider's final statuses of a claim that was delivered or returned
DeliveredStatuses == {"delivered_finish", "returned_finish"}

\* C38: for an active order whose claim the provider reports as delivered_finish
\* or returned_finish, every path that brings the local order in line with the
\* provider gives the status of the mapping, finished: the synchronisation of
\* the job and of the delivery refresh, and the admin's cancellation, which
\* never leaves the order cancelled with its stock and points released.
C38_DeliveredNeverCancelled ==
    \A o \in OrderIds :
        (orders[o].status \in ACTIVE_STATUSES /\ orders[o].yandex_claim_id # NULL)
        => \A ys \in DeliveredStatuses :
              /\ sync_order_status_from_yandex(o, ys)[o].status = yandex_to_local_map(ys)
              /\ \A ci \in CancelInfos, ok \in BOOLEAN :
                    adm_order_cancel_yes_effect(o, ys, ci, ok).d.orders[o].status
                        # S_CANCELLED

\* C39: when a run of check_delivery_statuses has ended, its loop has come to
\* every row of the batch that get_active_yandex_deliveries returned: no row
\* lies behind the row the loop handled last, whether that row was looked up
\* or was cancelled for having no claim id.
C39_RunExaminesWholeBatch ==
    job.pc = "done" => \A j \in DOMAIN job.batch : j <= job.i
====
